---- MODULE Spec2Model ----
(***************************************************************************)
(* A model of the Tier 2 enrichment pipeline of bookmate                   *)
(* (scraper/enrich_books.py): cluster construction, priority scoring,      *)
(* sorting and budget slicing, and the rate-limited, cached, concurrent    *)
(* Google Books lookups of fetch_single / fetch_batch inside                *)
(* enrich_pipeline.                                                        *)
(*                                                                         *)
(* The specifications share the variables:                                 *)
(*   SpecPriority  build_cluster_from_books, sort_clusters_by_priority and *)
(*                 slice_budget applied to bounded inputs;                 *)
(*   Spec          enrich_pipeline: sort, load_cache, slice, fetch_batch   *)
(*                 with one task per cluster, save_cache, run after run;   *)
(*   SpecAssemble  assemble_enriched applied to bounded fetch results;     *)
(*   SpecGroup     pre_group_books and normalize_book_string of            *)
(*                 scraper/ml_deduplicate.py applied to bounded records;   *)
(*   SpecCluster   cluster_groups_ml and assign_priority applied to        *)
(*                 bounded groups, for any labels of the clustering;       *)
(*   SpecScrape    main of scraper/scrape_goodreads_groups.py: the loop    *)
(*                 over the groups with its checkpoint, interrupted and    *)
(*                 started again.                                          *)
(***************************************************************************)
EXTENDS Integers, Sequences, FiniteSets, TLC

VARIABLES
    pc,              \* position of the program
    raw_inputs,      \* SpecPriority: the (key, books) pairs handed to build_cluster_from_books
    clusters,        \* the cluster list (built, or loaded by load_ml_clusters)
    sorted_clusters, \* result of sort_clusters_by_priority
    quota,           \* the quota argument
    to_fetch,        \* first component of slice_budget's result
    remainder,       \* second component of slice_budget's result
    cache_file,      \* CACHE_FILE on disk
    cache,           \* the in-memory cache dict shared by the lookup tasks
    max_concurrent,  \* fetch_batch's max_concurrent argument
    sem,             \* value of the asyncio.Semaphore
    tpc,             \* per task: position inside fetch_single
    entry,           \* per task: outcome of "key in cache" on entering fetch_single
    resp,            \* per task: what the HTTP layer answered
    result,          \* per task: fetch_single's return value
    completed,       \* task indices in the order the tasks finished
    calls_issued,       \* session.get calls issued in this run
    fetched,         \* fetch_batch's return value
    run,             \* number of the current pipeline run
    history,         \* <<key, "failed" | "empty">> of the earlier runs' calls that gave None
    cache_saves,     \* number of save_cache calls of the current run
    enriched,        \* enrich_pipeline: the list assemble_enriched returned
    enriched_file,   \* OUTPUT_FILE on disk
    enriched_by_gid, \* assemble_enriched: the dict of entries by Google Books id
    no_match,        \* assemble_enriched: the raw-fallback entries
    final_merged,    \* assemble_enriched: the dict of entries by merge key
    all_enriched,    \* assemble_enriched: the returned list
    raw_books,       \* pre_group_books: the book records handed in
    groups,          \* pre_group_books: the dict of groups, as (key, records) in insertion order
    next_book,       \* pre_group_books: index of the record the for loop takes next
    labels,          \* cluster_groups_ml: the labels fit_predict returned, one per key
    ml_clusters,     \* cluster_groups_ml: the returned list of clusters
    prioritized,     \* ml_deduplicate.main: [assign_priority(c) for c in clusters]
    checkpoint_file, \* scrape_goodreads_groups: CHECKPOINT_FILE on disk
    output_file,     \* scrape_goodreads_groups: OUTPUT_FILE on disk
    completed_groups, \* main: the set "completed"
    all_books,       \* main: the accumulated book list
    scrape_groups,   \* main: the list "groups" that discover_popular_groups returned
    remaining,       \* main: the groups the for loop has not finished, current one first
    scraped,         \* main: the list "books" that scrape_group_books returned
    scrape_run       \* number of the current run of the scraper

vars == <<pc, raw_inputs, clusters, sorted_clusters, quota, to_fetch, remainder,
          cache_file, cache, max_concurrent, sem, tpc, entry, resp, result,
          completed, calls_issued, fetched, run, history,
          cache_saves, enriched, enriched_file,
          enriched_by_gid, no_match, final_merged, all_enriched, raw_books, groups,
          next_book, labels, ml_clusters, prioritized,
          checkpoint_file, output_file, completed_groups, all_books, scrape_groups,
          remaining, scraped, scrape_run>>

priorityVars == <<raw_inputs, clusters, sorted_clusters, quota, to_fetch, remainder>>
outputVars == <<cache_saves, enriched, enriched_file>>
fetchVars == <<cache_file, cache, max_concurrent, sem, tpc, entry, resp, result,
               completed, calls_issued, fetched, run, history, outputVars>>
assembleVars == <<enriched_by_gid, no_match, final_merged, all_enriched>>
scrapeVars == <<checkpoint_file, output_file, completed_groups, all_books,
                scrape_groups, remaining, scraped, scrape_run>>
clusterVars == <<labels, ml_clusters, prioritized, scrapeVars>>
groupVars == <<raw_books, groups, next_book, clusterVars>>

(***************************************************************************)
(* Bounds of the model.                                                    *)
(***************************************************************************)
MaxClusters == 3        \* longest cluster list
MaxBooks == 10          \* most records in one cluster
MaxMemberCount == 99999 \* largest member_count of one record
MaxQuota == 3           \* largest quota tried
MaxConcurrent == 2      \* largest max_concurrent tried
MaxRuns == 2            \* pipeline runs in a row
MaxKeys == 2            \* distinct cache keys among the loaded clusters
MaxVolumes == 1         \* distinct volumes the catalog can answer with
MaxFetched == 2         \* most items in assemble_enriched's fetched list
MaxRemainder == 1       \* most clusters in assemble_enriched's remainder list
MaxRawBooks == 3        \* most records handed to pre_group_books
MaxGroups == 3          \* most groups handed to cluster_groups_ml
MaxScrapeGroups == 2    \* most groups on the popular-groups pages
MaxScrapeRuns == 3      \* most runs of the scraper in a row

(***************************************************************************)
(* Program constants.                                                      *)
(***************************************************************************)
CURRENTLY_READING_BONUS == 1000000
CLUB_APPEARANCE_BONUS == 500
MAX_CONCURRENT == 1
DAILY_API_QUOTA == 1000

Min(a, b) == IF a <= b THEN a ELSE b
Max(a, b) == IF a >= b THEN a ELSE b

(***************************************************************************)
(* Raw book records and cluster construction.                              *)
(***************************************************************************)
Categories == {"Currently Reading", "Previously Read"}

\* str.lower() on the category values that occur
Lower(s) ==
    CASE s = "Currently Reading" -> "currently reading"
      [] s = "Previously Read" -> "previously read"
      [] OTHER -> s

RECURSIVE SumMemberCount(_)
SumMemberCount(books) ==
    IF books = <<>> THEN 0
    ELSE books[1].member_count + SumMemberCount(Tail(books))

build_cluster_from_books(key, books) ==
    [ key |-> key,
      representative_title |-> books[1].title,
      representative_author |-> books[1].author,
      is_currently_reading |->
          \E i \in 1..Len(books) : Lower(books[i].category) = "currently reading",
      total_member_count |-> SumMemberCount(books),
      num_clubs |-> Cardinality({books[i].club_name : i \in 1..Len(books)}),
      books |-> books ]

(***************************************************************************)
(* Priority scoring, sorting and slicing.                                  *)
(***************************************************************************)
compute_priority_score(cluster) ==
    (IF cluster.is_currently_reading THEN CURRENTLY_READING_BONUS ELSE 0)
    + cluster.total_member_count
    + cluster.num_clubs * CLUB_APPEARANCE_BONUS

Reverse(s) == [i \in 1..Len(s) |-> s[Len(s) + 1 - i]]

\* c placed behind every element whose score is at least its own
InsertDescending(s, c) ==
    LET n == Cardinality({i \in 1..Len(s) :
                 compute_priority_score(s[i]) >= compute_priority_score(c)})
    IN  SubSeq(s, 1, n) \o <<c>> \o SubSeq(s, n + 1, Len(s))

\* c placed behind every element whose score is at most its own
InsertAscending(s, c) ==
    LET n == Cardinality({i \in 1..Len(s) :
                 compute_priority_score(s[i]) <= compute_priority_score(c)})
    IN  SubSeq(s, 1, n) \o <<c>> \o SubSeq(s, n + 1, Len(s))

RECURSIVE SortedAscending(_)
SortedAscending(s) ==
    IF s = <<>> THEN <<>>
    ELSE InsertAscending(SortedAscending(SubSeq(s, 1, Len(s) - 1)), s[Len(s)])

\* sorted(s, key=compute_priority_score, reverse=True): a stable descending sort
RECURSIVE SortedDescending(_)
SortedDescending(s) ==
    IF s = <<>> THEN <<>>
    ELSE InsertDescending(SortedDescending(SubSeq(s, 1, Len(s) - 1)), s[Len(s)])

\* sorted(s, key=...)[::-1]: descending, but equal scores come out reversed
sort_clusters_ascending_reversed(cs) == Reverse(SortedAscending(cs))

sort_clusters_by_priority(cs) == SortedDescending(cs)

\* s[:q] and s[q:] of a Python list (a negative q counts from the end)
SliceTo(s, q) ==
    IF q >= 0 THEN SubSeq(s, 1, Min(q, Len(s)))
    ELSE SubSeq(s, 1, Max(Len(s) + q, 0))

SliceFrom(s, q) ==
    IF q >= 0 THEN SubSeq(s, Min(q, Len(s)) + 1, Len(s))
    ELSE SubSeq(s, Max(Len(s) + q, 0) + 1, Len(s))

slice_budget_off_by_one(cs, q) ==
    [to_fetch |-> SliceTo(cs, q), remainder |-> SliceFrom(cs, q + 1)]

slice_budget(cs, q) ==
    [to_fetch |-> SliceTo(cs, q), remainder |-> SliceFrom(cs, q)]

(***************************************************************************)
(* Values shared by both specifications.                                   *)
(***************************************************************************)
NoFile == [state |-> "missing"]
EmptyDict == [k \in {} |-> TRUE]

\* the lookup side of the program at rest
FetchIdle ==
    /\ cache_file = NoFile
    /\ cache = EmptyDict
    /\ max_concurrent = MAX_CONCURRENT
    /\ sem = 0
    /\ tpc = <<>>
    /\ entry = <<>>
    /\ resp = <<>>
    /\ result = <<>>
    /\ completed = <<>>
    /\ calls_issued = 0
    /\ fetched = <<>>
    /\ run = 1
    /\ history = {}
    /\ cache_saves = 0
    /\ enriched = <<>>
    /\ enriched_file = NoFile

\* assemble_enriched not entered
AssembleIdle ==
    /\ enriched_by_gid = <<>>
    /\ no_match = <<>>
    /\ final_merged = <<>>
    /\ all_enriched = <<>>

\* the scraper not started
ScrapeIdle ==
    /\ checkpoint_file = [state |-> "missing"]
    /\ output_file = [state |-> "missing"]
    /\ completed_groups = {}
    /\ all_books = <<>>
    /\ scrape_groups = <<>>
    /\ remaining = <<>>
    /\ scraped = <<>>
    /\ scrape_run = 1

\* cluster_groups_ml and assign_priority not entered
ClusterIdle ==
    /\ labels = <<>>
    /\ ml_clusters = <<>>
    /\ prioritized = <<>>
    /\ ScrapeIdle

\* pre_group_books not entered
GroupIdle ==
    /\ raw_books = <<>>
    /\ groups = <<>>
    /\ next_book = 1
    /\ ClusterIdle

(***************************************************************************)
(* SpecPriority: raw records -> clusters -> sorted -> sliced.              *)
(***************************************************************************)
BookCounts == {1, 2, MaxBooks}
MemberCounts == {0, MaxMemberCount}
RawParams == BookCounts \X MemberCounts \X Categories

\* how the records of a cluster are spread over clubs: each from a club of
\* its own, all from one club, or all from one club name on two sources
ClubLayouts == {"own", "shared", "mixed"}

\* n records of the book at position p, each with m members; the first
\* record carries the category cat
BookList(p, n, m, cat, layout) ==
    [i \in 1..n |->
        [ title |-> <<"Book", p>>,
          author |-> <<"Author", p>>,
          category |-> IF i = 1 THEN cat ELSE "Previously Read",
          club_name |-> IF layout = "own" THEN <<"Club", i>> ELSE <<"Club", 1>>,
          source_type |->
              IF layout = "mixed" /\ i % 2 = 0 THEN "Reddit" ELSE "Goodreads",
          member_count |-> m ]]

RawInput(p, prm, layout) ==
    [key |-> <<"key", p>>, books |-> BookList(p, prm[1], prm[2], prm[3], layout)]

InitPriority ==
    /\ pc = "raw"
    /\ \E n \in 0..MaxClusters : \E f \in [1..n -> RawParams] :
          \E layout \in ClubLayouts :
              raw_inputs = [p \in 1..n |-> RawInput(p, f[p], layout)]
    /\ clusters = <<>>
    /\ sorted_clusters = <<>>
    /\ quota = DAILY_API_QUOTA
    /\ to_fetch = <<>>
    /\ remainder = <<>>
    /\ FetchIdle
    /\ AssembleIdle
    /\ GroupIdle

Build ==
    /\ pc = "raw"
    /\ clusters' = [p \in 1..Len(raw_inputs) |->
                       build_cluster_from_books(raw_inputs[p].key, raw_inputs[p].books)]
    /\ pc' = "built"
    /\ UNCHANGED <<raw_inputs, sorted_clusters, quota, to_fetch, remainder>>
    /\ UNCHANGED fetchVars
    /\ UNCHANGED <<assembleVars, groupVars>>

Sort ==
    /\ pc = "built"
    /\ sorted_clusters' = sort_clusters_by_priority(clusters)
    /\ pc' = "sorted"
    /\ UNCHANGED <<raw_inputs, clusters, quota, to_fetch, remainder>>
    /\ UNCHANGED fetchVars
    /\ UNCHANGED <<assembleVars, groupVars>>

Slice(q) ==
    /\ pc = "sorted"
    /\ quota' = q
    /\ to_fetch' = slice_budget(sorted_clusters, q).to_fetch
    /\ remainder' = slice_budget(sorted_clusters, q).remainder
    /\ pc' = "sliced"
    /\ UNCHANGED <<raw_inputs, clusters, sorted_clusters>>
    /\ UNCHANGED fetchVars
    /\ UNCHANGED <<assembleVars, groupVars>>

NextPriority ==
    \/ Build
    \/ Sort
    \/ \E q \in -1..MaxQuota : Slice(q)

SpecPriority == InitPriority /\ [][NextPriority]_vars

(***************************************************************************)
(* Text: a Python str is a sequence of one-character strings.              *)
(***************************************************************************)
LowerLetters ==
    <<"a", "b", "c", "d", "e", "f", "g", "h", "i", "j", "k", "l", "m",
      "n", "o", "p", "q", "r", "s", "t", "u", "v", "w", "x", "y", "z">>
UpperLetters ==
    <<"A", "B", "C", "D", "E", "F", "G", "H", "I", "J", "K", "L", "M",
      "N", "O", "P", "Q", "R", "S", "T", "U", "V", "W", "X", "Y", "Z">>
DigitChars == <<"0", "1", "2", "3", "4", "5", "6", "7", "8", "9">>
\* the other characters that occur, in code-point order around the letters
Ascii ==
    <<" ", "!", "(", ")", ",">> \o DigitChars \o <<":">> \o UpperLetters
        \o <<"[", "]">> \o LowerLetters \o <<"|">>

Range(s) == {s[i] : i \in 1..Len(s)}
IsLower(c) == c \in Range(LowerLetters)
IsUpper(c) == c \in Range(UpperLetters)
IsDigit(c) == c \in Range(DigitChars)
IsSpace(c) == c = " "                     \* \s
IsWord(c) == IsLower(c) \/ IsUpper(c) \/ IsDigit(c)   \* \w without "_"
Code(c) == CHOOSE i \in 1..Len(Ascii) : Ascii[i] = c

\* str.lower()
LowerChar(c) ==
    IF IsUpper(c) THEN LowerLetters[CHOOSE i \in 1..26 : UpperLetters[i] = c] ELSE c
LowerStr(s) == [i \in 1..Len(s) |-> LowerChar(s[i])]
UpperChar(c) ==
    IF IsLower(c) THEN UpperLetters[CHOOSE i \in 1..26 : LowerLetters[i] = c] ELSE c
UpperStr(s) == [i \in 1..Len(s) |-> UpperChar(s[i])]

RECURSIVE LStrip(_)
LStrip(s) == IF s # <<>> /\ IsSpace(s[1]) THEN LStrip(Tail(s)) ELSE s
RECURSIVE RStrip(_)
RStrip(s) ==
    IF s # <<>> /\ IsSpace(s[Len(s)]) THEN RStrip(SubSeq(s, 1, Len(s) - 1)) ELSE s
\* str.strip()
Strip(s) == RStrip(LStrip(s))

\* a < b and a <= b of two str (by code point, the shorter first on a tie)
RECURSIVE StrLess(_, _)
StrLess(a, b) ==
    IF b = <<>> THEN FALSE
    ELSE IF a = <<>> THEN TRUE
    ELSE IF a[1] = b[1] THEN StrLess(Tail(a), Tail(b))
    ELSE Code(a[1]) < Code(b[1])
StrLeq(a, b) == a = b \/ StrLess(a, b)

(***************************************************************************)
(* The cache and the catalog's answers.                                    *)
(***************************************************************************)
Null == [null |-> TRUE]     \* Python's None
\* an optional int: <<>> for None, <<n>> for the int n
NoneInt == <<>>
SomeInt(n) == <<n>>

Keys == {<<"key", j>> : j \in 1..MaxKeys}

\* one entry of the "items" list of a Google Books answer
GidNames == <<"gid_1", "gid_2", "gid_3">>
VolumeItem(g) ==
    [ id |-> GidNames[g],
      volumeInfo |->
        [ title |-> <<"T", "i", "t", "l", "e", " ", DigitChars[g + 1]>>,
          authors |-> << <<"A", "u", "t", "h", "o", "r", " ", DigitChars[g + 1]>> >>,
          categories |-> <<"Fiction">>,
          pageCount |-> SomeInt(320),
          publishedDate |-> "2020-01-01",
          imageLinks |-> [thumbnail |-> "https://img.example.com/thumb.jpg"],
          description |-> "A great book about testing." ] ]

\* ", ".join(authors) for the author lists of the model (none or one author)
JoinAuthors(authors) == IF authors = <<>> THEN <<>> ELSE authors[1]

\* the result dict fetch_single builds from the first item (the descriptions of
\* the model are shorter than the 300 characters kept)
ParseVolume(item) ==
    [ google_books_id |-> item.id,
      canonical_title |-> item.volumeInfo.title,
      canonical_author |-> JoinAuthors(item.volumeInfo.authors),
      categories |-> item.volumeInfo.categories,
      page_count |-> item.volumeInfo.pageCount,
      published_date |-> item.volumeInfo.publishedDate,
      thumbnail |-> item.volumeInfo.imageLinks.thumbnail,
      description |-> item.volumeInfo.description ]

\* what session.get / resp.json() can come back with
NoResponse == [kind |-> "none"]
RaisedResponse == [kind |-> "exception"]      \* transport error, timeout, malformed payload
StatusResponse == [kind |-> "status", status |-> 500]
EmptyResponse == [kind |-> "json", status |-> 200, items |-> <<>>]
FoundResponse(g) == [kind |-> "json", status |-> 200, items |-> <<VolumeItem(g)>>]
FailedResponses == {RaisedResponse, StatusResponse}
Responses ==
    FailedResponses \cup {EmptyResponse} \cup {FoundResponse(g) : g \in 1..MaxVolumes}

\* the value fetch_single returns after the answer r
ResultOf(r) ==
    IF r.kind = "json" /\ r.items # <<>> THEN ParseVolume(r.items[1]) ELSE Null

Put(c, k, v) == [x \in DOMAIN c \cup {k} |-> IF x = k THEN v ELSE c[x]]

\* a lookup that forgets to record an empty result
CacheAfterResponseSkipEmpty(c, k, r) ==
    IF r.kind = "json" /\ r.items # <<>> THEN Put(c, k, ResultOf(r)) ELSE c

\* a lookup that records every None it returns
CacheAfterResponseCacheFailures(c, k, r) == Put(c, k, ResultOf(r))

\* the cache dict after fetch_single has handled the answer r for key k
CacheAfterResponse(c, k, r) ==
    IF r.kind = "json" THEN Put(c, k, ResultOf(r)) ELSE c

\* "if cache.get(key):" instead of "if key in cache:"
CacheHitTruthy(c, k) == k \in DOMAIN c /\ c[k] # Null

\* "key in cache"
CacheHit(c, k) == k \in DOMAIN c

\* "except aiohttp.ClientError" in place of "except Exception": a malformed
\* payload or a timeout escapes
CaughtClientErrorOnly(r) == r.kind # "exception"

\* the try block spans everything from building the request to parsing the
\* answer, and "except Exception" catches whatever it raises
Caught(r) == r.kind \in {"exception", "status", "json"}

SemAlwaysFree(s) == TRUE

\* the semaphore lets a task in only while its value is positive
SemFree(s) == s > 0

\* CACHE_FILE: absent, or holding a saved dict
\* (json.dump followed by json.load gives back the same keys and values)
SavedFile(c) == [state |-> "ok", content |-> c]

\* CACHE_FILE damaged: cut short (json.JSONDecodeError), not openable
\* (OSError), or holding bytes that are not UTF-8 (UnicodeDecodeError)
DamagedFiles ==
    {[state |-> "truncated"], [state |-> "unreadable"], [state |-> "undecodable"]}

\* the exceptions "except (json.JSONDecodeError, OSError)" does not catch
LoadRaises(file) == file.state = "undecodable"

\* the dict load_cache returns when it returns
load_cache(file) == IF file.state = "ok" THEN file.content ELSE EmptyDict

save_cache(c) == SavedFile(c)

\* the results fetch_batch returns, paired by position in the task list
GatherByCompletion(cs, res, order) ==
    [i \in 1..Len(cs) |-> [cluster |-> cs[i], api_result |-> res[order[i]]]]

GatherResults(cs, res, order) ==
    [i \in 1..Len(cs) |-> [cluster |-> cs[i], api_result |-> res[i]]]

(***************************************************************************)
(* assemble_enriched.                                                      *)
(***************************************************************************)
\* Python truthiness of the metadata values
TruthyList(v) == v # <<>>
TruthyStr(v) == v # ""
TruthyInt(v) == v # NoneInt /\ v # SomeInt(0)

_club_entry(book) ==
    [ club_name |-> book.club_name,
      source_type |-> book.source_type,
      discussion_url |-> book.discussion_url,
      month |-> book.month,
      original_title |-> book.title ]

\* one club record per club name of the cluster
ClubsOfDistinctClubs(cluster) ==
    LET firsts == SelectSeq([i \in 1..Len(cluster.books) |-> i],
                            LAMBDA i : \A j \in 1..(i - 1) :
                                cluster.books[j].club_name # cluster.books[i].club_name)
    IN  [n \in 1..Len(firsts) |-> _club_entry(cluster.books[firsts[n]])]

\* [_club_entry(b) for b in cluster["books"]]
ClubsOf(cluster) ==
    [i \in 1..Len(cluster.books) |-> _club_entry(cluster.books[i])]

\* a raw entry with "page_count": 0
_make_raw_entry_zero_pages(cluster) ==
    [ canonical_title |-> cluster.representative_title,
      canonical_author |-> cluster.representative_author,
      categories |-> <<>>,
      page_count |-> SomeInt(0),
      published_date |-> "",
      thumbnail |-> "",
      description |-> "",
      clubs |-> ClubsOf(cluster) ]

_make_raw_entry(cluster) ==
    [ canonical_title |-> cluster.representative_title,
      canonical_author |-> cluster.representative_author,
      categories |-> <<>>,
      page_count |-> NoneInt,
      published_date |-> "",
      thumbnail |-> "",
      description |-> "",
      clubs |-> ClubsOf(cluster) ]

\* "not gb or not gb.get('google_books_id')"
LacksId(gb) == gb = Null \/ gb.google_books_id = ""

\* the entry created for the first item that carries a google_books_id
NewGidEntry(gb) ==
    [ google_books_id |-> gb.google_books_id,
      canonical_title |-> gb.canonical_title,
      canonical_author |-> gb.canonical_author,
      categories |-> gb.categories,
      page_count |-> gb.page_count,
      published_date |-> gb.published_date,
      thumbnail |-> gb.thumbnail,
      description |-> gb.description,
      clubs |-> <<>> ]

\* a dict is the sequence of its values in insertion order
HasGid(by_gid, gid) == \E i \in 1..Len(by_gid) : by_gid[i].google_books_id = gid
IndexOfGid(by_gid, gid) ==
    CHOOSE i \in 1..Len(by_gid) : by_gid[i].google_books_id = gid

\* every item with an id stores its own metadata, the last one wins
GidEntryOverwritten(by_gid, gb) ==
    IF HasGid(by_gid, gb.google_books_id)
    THEN [by_gid EXCEPT ![IndexOfGid(by_gid, gb.google_books_id)] =
              [NewGidEntry(gb) EXCEPT !.clubs =
                  by_gid[IndexOfGid(by_gid, gb.google_books_id)].clubs]]
    ELSE Append(by_gid, NewGidEntry(gb))

\* "if gid not in enriched_by_gid: enriched_by_gid[gid] = {...}"
GidEntryEnsured(by_gid, gb) ==
    IF HasGid(by_gid, gb.google_books_id) THEN by_gid
    ELSE Append(by_gid, NewGidEntry(gb))

\* the entry's clubs set to the cluster's instead of extended by them
GidClubsReplaced(by_gid, gid, cluster) ==
    [by_gid EXCEPT ![IndexOfGid(by_gid, gid)].clubs = ClubsOf(cluster)]

\* "for b in books: enriched_by_gid[gid]['clubs'].append(_club_entry(b))"
GidClubsAppended(by_gid, gid, cluster) ==
    [by_gid EXCEPT ![IndexOfGid(by_gid, gid)].clubs = @ \o ClubsOf(cluster)]

\* one iteration of "for item in fetched"
FetchedStep(acc, item) ==
    IF LacksId(item.api_result)
    THEN [acc EXCEPT !.no_match = Append(@, _make_raw_entry(item.cluster))]
    ELSE [acc EXCEPT !.enriched_by_gid =
              GidClubsAppended(GidEntryEnsured(@, item.api_result),
                               item.api_result.google_books_id, item.cluster)]

RECURSIVE FetchedLoop(_, _)
FetchedLoop(acc, items) ==
    IF items = <<>> THEN acc
    ELSE FetchedLoop(FetchedStep(acc, items[1]), Tail(items))

\* "for cluster in remainder: no_match.append(_make_raw_entry(cluster))"
RemainderLoop(no_match_, rest) ==
    no_match_ \o [i \in 1..Len(rest) |-> _make_raw_entry(rest[i])]

\* re.sub(r"[^a-z0-9\s]", "", s.lower()).strip()
IsMergeKeyChar(c) == IsLower(c) \/ IsDigit(c) \/ IsSpace(c)
MergeNorm(s) == Strip(SelectSeq(LowerStr(s), IsMergeKeyChar))

\* f"{norm_title}|{norm_author}": neither part holds a "|", so the pair of the
\* parts stands for the joined string
merge_key(e) == <<MergeNorm(e.canonical_title), MergeNorm(e.canonical_author)>>

\* the later entry's values always replace the base's
BackfilledAlways(existing, e) ==
    [existing EXCEPT !.categories = e.categories,
                     !.page_count = e.page_count,
                     !.thumbnail = e.thumbnail]

\* lines 409-414: empty values of the base filled from the later entry
Backfilled(existing, e) ==
    [existing EXCEPT
        !.categories = IF ~TruthyList(@) /\ TruthyList(e.categories)
                       THEN e.categories ELSE @,
        !.page_count = IF ~TruthyInt(@) /\ TruthyInt(e.page_count)
                       THEN e.page_count ELSE @,
        !.thumbnail = IF ~TruthyStr(@) /\ TruthyStr(e.thumbnail)
                      THEN e.thumbnail ELSE @]

HasKey(final, k) == \E i \in 1..Len(final) : merge_key(final[i]) = k
IndexOfKey(final, k) == CHOOSE i \in 1..Len(final) : merge_key(final[i]) = k

\* a merge pass that compares the titles as they are
MergeStepExactTitle(final, e) ==
    IF \E i \in 1..Len(final) :
          /\ final[i].canonical_title = e.canonical_title
          /\ final[i].canonical_author = e.canonical_author
    THEN LET i == CHOOSE i \in 1..Len(final) :
                      /\ final[i].canonical_title = e.canonical_title
                      /\ final[i].canonical_author = e.canonical_author
         IN  [final EXCEPT ![i] =
                 Backfilled([final[i] EXCEPT !.clubs = @ \o e.clubs], e)]
    ELSE Append(final, e)

\* one iteration of "for entry in list(enriched_by_gid.values()) + no_match"
MergeStep(final, e) ==
    IF HasKey(final, merge_key(e))
    THEN LET i == IndexOfKey(final, merge_key(e))
         IN  [final EXCEPT ![i] =
                 Backfilled([final[i] EXCEPT !.clubs = @ \o e.clubs], e)]
    ELSE Append(final, e)

RECURSIVE MergeLoop(_, _)
MergeLoop(final, entries) ==
    IF entries = <<>> THEN final
    ELSE MergeLoop(MergeStep(final, entries[1]), Tail(entries))

\* key=lambda c: (0 if c["source_type"] == "Reddit" else 1, c["club_name"])
ClubFlag(c) == IF c.source_type = "Reddit" THEN 0 ELSE 1

\* a key that puts the Reddit records last
ClubKeyLeqRedditLast(a, b) ==
    \/ ClubFlag(a) > ClubFlag(b)
    \/ ClubFlag(a) = ClubFlag(b) /\ StrLeq(a.club_name, b.club_name)

ClubKeyLeq(a, b) ==
    \/ ClubFlag(a) < ClubFlag(b)
    \/ ClubFlag(a) = ClubFlag(b) /\ StrLeq(a.club_name, b.club_name)

\* c placed behind every record whose key is at most its own
InsertClub(s, c) ==
    LET n == Cardinality({i \in 1..Len(s) : ClubKeyLeq(s[i], c)})
    IN  SubSeq(s, 1, n) \o <<c>> \o SubSeq(s, n + 1, Len(s))

\* list.sort(key=...): stable, ascending
RECURSIVE SortedClubs(_)
SortedClubs(s) ==
    IF s = <<>> THEN <<>>
    ELSE InsertClub(SortedClubs(SubSeq(s, 1, Len(s) - 1)), s[Len(s)])

\* "for entry in all_enriched: entry['clubs'].sort(...)"
ClubsSortedIn(entries) ==
    [i \in 1..Len(entries) |-> [entries[i] EXCEPT !.clubs = SortedClubs(@)]]

assemble_enriched(fetched_, remainder_) ==
    LET first == FetchedLoop([enriched_by_gid |-> <<>>, no_match |-> <<>>], fetched_)
        raw == RemainderLoop(first.no_match, remainder_)
    IN  ClubsSortedIn(MergeLoop(<<>>, first.enriched_by_gid \o raw))

\* sorted(enriched, key=lambda e: e["canonical_title"].lower())
TitleLeq(a, b) == StrLeq(LowerStr(a.canonical_title), LowerStr(b.canonical_title))
RECURSIVE InsertByTitle(_, _)
InsertByTitle(sorted, e) ==
    IF sorted = <<>> THEN <<e>>
    ELSE IF TitleLeq(sorted[Len(sorted)], e) THEN Append(sorted, e)
    ELSE Append(InsertByTitle(SubSeq(sorted, 1, Len(sorted) - 1), e), sorted[Len(sorted)])
RECURSIVE SortedByTitle(_)
SortedByTitle(entries) ==
    IF entries = <<>> THEN <<>>
    ELSE InsertByTitle(SortedByTitle(SubSeq(entries, 1, Len(entries) - 1)),
                       entries[Len(entries)])

\* OUTPUT_FILE after save_enriched: the books and the count in the stats
save_enriched(entries) ==
    [state |-> "ok",
     total_unique_books |-> Len(entries),
     books |-> SortedByTitle(entries)]

(***************************************************************************)
(* Spec: enrich_pipeline, run after run.                                   *)
(***************************************************************************)
\* what varies between the clusters of ml_deduplicated.json: the key their
\* title and author normalise to (two clusters can normalise to the same key)
\* and whether a club is currently reading them
LoadedParams == Keys \X BOOLEAN

\* cluster p of ml_deduplicated.json, read by one club
MlCluster(p, cr) ==
    [ representative_title |-> <<"B", "o", "o", "k", " ", DigitChars[p + 1]>>,
      representative_author |-> <<"W", "r", "i", "t", "e", "r", " ", DigitChars[p + 1]>>,
      has_currently_reading |-> cr,
      club_count |-> 1,
      clubs |-> << [ club_name |-> <<"C", "l", "u", "b", " ", "1">>,
                     source_type |-> "Goodreads",
                     member_count |-> 0,
                     discussion_url |-> "",
                     month |-> "" ] >> ]

\* the cluster load_ml_clusters builds from the file's cluster c, whose title
\* and author normalise to key
LoadedCluster(c, key) ==
    [ key |-> key,
      representative_title |-> c.representative_title,
      representative_author |-> c.representative_author,
      is_currently_reading |-> c.has_currently_reading,
      total_member_count |-> SumMemberCount(c.clubs),
      num_clubs |-> c.club_count,
      books |-> [i \in 1..Len(c.clubs) |->
                    [ title |-> c.representative_title,
                      author |-> c.representative_author,
                      club_name |-> c.clubs[i].club_name,
                      source_type |-> c.clubs[i].source_type,
                      discussion_url |-> c.clubs[i].discussion_url,
                      month |-> c.clubs[i].month ]] ]

\* caches left behind by earlier runs
EarlierCaches ==
    {[x \in {k} |-> v] : k \in Keys, v \in {Null, ParseVolume(VolumeItem(1))}}

CacheFiles == {NoFile} \cup {SavedFile(c) : c \in EarlierCaches} \cup DamagedFiles

Tasks == 1..Len(to_fetch)
\* every task has run up to its first suspension
AllStarted == \A i \in DOMAIN tpc : tpc[i] # "ready"
KeyOfTask(i) == to_fetch[i].key
InGate == {i \in DOMAIN tpc : tpc[i] \in {"sleeping", "calling"}}

\* the state before enrich_pipeline runs: the clusters of ml_deduplicated.json,
\* the --quota argument (argparse takes any integer), the cache file on disk,
\* and fetch_batch's max_concurrent (MAX_CONCURRENT by default)
Init ==
    /\ pc = "start"
    /\ raw_inputs = <<>>
    /\ \E n \in 0..MaxClusters : \E f \in [1..n -> LoadedParams] :
          clusters = [p \in 1..n |-> LoadedCluster(MlCluster(p, f[p][2]), f[p][1])]
    /\ sorted_clusters = <<>>
    /\ quota \in -1..MaxQuota
    /\ to_fetch = <<>>
    /\ remainder = <<>>
    /\ cache_file \in CacheFiles
    /\ cache = EmptyDict
    /\ max_concurrent \in 1..MaxConcurrent
    /\ sem = 0
    /\ tpc = <<>>
    /\ entry = <<>>
    /\ resp = <<>>
    /\ result = <<>>
    /\ completed = <<>>
    /\ calls_issued = 0
    /\ fetched = <<>>
    /\ run = 1
    /\ history = {}
    /\ cache_saves = 0
    /\ enriched = <<>>
    /\ enriched_file = NoFile
    /\ AssembleIdle
    /\ GroupIdle

\* enrich_pipeline up to the point where fetch_batch has created its tasks,
\* or up to the exception that escapes load_cache
StartRun ==
    /\ pc = "start"
    /\ sorted_clusters' = sort_clusters_by_priority(clusters)
    /\ IF LoadRaises(cache_file)
       THEN /\ pc' = "load_raised"
            /\ UNCHANGED <<cache, to_fetch, remainder, sem, tpc, entry, resp, result>>
       ELSE /\ cache' = load_cache(cache_file)
            /\ to_fetch' = slice_budget(sorted_clusters', quota).to_fetch
            /\ remainder' = slice_budget(sorted_clusters', quota).remainder
            /\ sem' = max_concurrent
            /\ tpc' = [i \in 1..Len(to_fetch') |-> "ready"]
            /\ entry' = [i \in 1..Len(to_fetch') |-> "unchecked"]
            /\ resp' = [i \in 1..Len(to_fetch') |-> NoResponse]
            /\ result' = [i \in 1..Len(to_fetch') |-> Null]
            /\ pc' = "batch"
    /\ completed' = <<>>
    /\ calls_issued' = 0
    /\ fetched' = <<>>
    /\ UNCHANGED <<raw_inputs, clusters, quota, cache_file, max_concurrent, run, history>>
    /\ UNCHANGED <<outputVars, assembleVars, groupVars>>

\* a task inside "async with sem" that goes straight to session.get
AcquiredNoDelay(t, i) == [t EXCEPT ![i] = "calling"]

\* a task that has entered "async with sem": it awaits asyncio.sleep(PER_REQUEST_DELAY)
Acquired(t, i) == [t EXCEPT ![i] = "sleeping"]

\* fetch_single from its entry to its first suspension (or its return on a hit).
\* asyncio.gather schedules the tasks in list order and each runs without
\* yielding up to asyncio.sleep or a taken semaphore, so the cache checks
\* happen in task order.
TaskStart(i) ==
    /\ pc = "batch"
    /\ tpc[i] = "ready"
    /\ \A j \in 1..(i - 1) : tpc[j] # "ready"
    /\ IF CacheHit(cache, KeyOfTask(i))
       THEN /\ entry' = [entry EXCEPT ![i] = "hit"]
            /\ result' = [result EXCEPT ![i] = cache[KeyOfTask(i)]]
            /\ tpc' = [tpc EXCEPT ![i] = "done"]
            /\ completed' = Append(completed, i)
            /\ sem' = sem
       ELSE /\ entry' = [entry EXCEPT ![i] = "miss"]
            /\ IF SemFree(sem)
               THEN /\ sem' = sem - 1
                    /\ tpc' = Acquired(tpc, i)
               ELSE /\ sem' = sem
                    /\ tpc' = [tpc EXCEPT ![i] = "waiting"]
            /\ UNCHANGED <<result, completed>>
    /\ UNCHANGED <<pc, cache, resp, calls_issued, fetched, cache_file, max_concurrent, run, history>>
    /\ UNCHANGED priorityVars
    /\ UNCHANGED <<outputVars, assembleVars, groupVars>>

\* a task blocked in "async with sem" gets the semaphore; the semaphore wakes
\* its waiters first come, first served
TaskAcquire(i) ==
    /\ pc = "batch"
    /\ AllStarted
    /\ tpc[i] = "waiting"
    /\ \A j \in 1..(i - 1) : tpc[j] # "waiting"
    /\ SemFree(sem)
    /\ sem' = sem - 1
    /\ tpc' = Acquired(tpc, i)
    /\ UNCHANGED <<pc, cache, entry, resp, result, completed, calls_issued, fetched,
                   cache_file, max_concurrent, run, history>>
    /\ UNCHANGED priorityVars
    /\ UNCHANGED <<outputVars, assembleVars, groupVars>>

\* PER_REQUEST_DELAY is over: the task issues session.get
TaskCall(i) ==
    /\ pc = "batch"
    /\ AllStarted
    /\ tpc[i] = "sleeping"
    /\ tpc' = [tpc EXCEPT ![i] = "calling"]
    /\ calls_issued' = calls_issued + 1
    /\ UNCHANGED <<pc, cache, sem, entry, resp, result, completed, fetched,
                   cache_file, max_concurrent, run, history>>
    /\ UNCHANGED priorityVars
    /\ UNCHANGED <<outputVars, assembleVars, groupVars>>

\* the answer r arrives; the task handles it, leaves the semaphore and returns
\* (or lets an exception that no handler catches escape)
TaskRespond(i, r) ==
    /\ pc = "batch"
    /\ tpc[i] = "calling"
    /\ resp' = [resp EXCEPT ![i] = r]
    /\ sem' = sem + 1
    /\ completed' = Append(completed, i)
    /\ IF Caught(r)
       THEN /\ cache' = CacheAfterResponse(cache, KeyOfTask(i), r)
            /\ result' = [result EXCEPT ![i] = ResultOf(r)]
            /\ tpc' = [tpc EXCEPT ![i] = "done"]
       ELSE /\ cache' = cache
            /\ result' = result
            /\ tpc' = [tpc EXCEPT ![i] = "raised"]
    /\ UNCHANGED <<pc, entry, calls_issued, fetched, cache_file, max_concurrent, run, history>>
    /\ UNCHANGED priorityVars
    /\ UNCHANGED <<outputVars, assembleVars, groupVars>>

\* asyncio.gather has every result: fetch_batch returns
\* (return_exceptions=False: an exception of a task is raised to the caller)
GatherReturn ==
    /\ pc = "batch"
    /\ \A i \in Tasks : tpc[i] \in {"done", "raised"}
    /\ IF \E i \in Tasks : tpc[i] = "raised"
       THEN /\ fetched' = fetched
            /\ pc' = "raised"
       ELSE /\ fetched' = GatherResults(to_fetch, result, completed)
            /\ pc' = "fetched"
    /\ UNCHANGED <<cache, sem, tpc, entry, resp, result, completed, calls_issued,
                   cache_file, max_concurrent, run, history>>
    /\ UNCHANGED priorityVars
    /\ UNCHANGED <<outputVars, assembleVars, groupVars>>

\* save_cache(cache) called while tasks of the batch are still running
SaveCacheDuringBatch ==
    /\ pc = "batch"
    /\ cache_saves = 0
    /\ cache_file' = save_cache(cache)
    /\ cache_saves' = cache_saves + 1
    /\ UNCHANGED <<pc, cache, sem, tpc, entry, resp, result, completed, calls_issued,
                   fetched, max_concurrent, run, history, enriched, enriched_file>>
    /\ UNCHANGED priorityVars
    /\ UNCHANGED <<assembleVars, groupVars>>

\* save_cache(cache) after the batch
SaveCache ==
    /\ pc = "fetched"
    /\ cache_file' = save_cache(cache)
    /\ cache_saves' = cache_saves + 1
    /\ pc' = "saved"
    /\ UNCHANGED <<cache, sem, tpc, entry, resp, result, completed, calls_issued,
                   fetched, max_concurrent, run, history, enriched, enriched_file>>
    /\ UNCHANGED priorityVars
    /\ UNCHANGED <<assembleVars, groupVars>>

\* enriched = assemble_enriched(fetched, remainder)
AssembleEnriched ==
    /\ pc = "saved"
    /\ enriched' = assemble_enriched(fetched, remainder)
    /\ pc' = "assembled"
    /\ UNCHANGED <<cache_file, cache, max_concurrent, sem, tpc, entry, resp, result,
                   completed, calls_issued, fetched, run, history,
                   cache_saves, enriched_file>>
    /\ UNCHANGED priorityVars
    /\ UNCHANGED <<assembleVars, groupVars>>

\* save_enriched(enriched), and enrich_pipeline returns
SaveEnriched ==
    /\ pc = "assembled"
    /\ enriched_file' = save_enriched(enriched)
    /\ pc' = "done"
    /\ UNCHANGED <<cache_file, cache, max_concurrent, sem, tpc, entry, resp, result,
                   completed, calls_issued, fetched, run, history,
                   cache_saves, enriched>>
    /\ UNCHANGED priorityVars
    /\ UNCHANGED <<assembleVars, groupVars>>

\* the program is started again on the same input, with the cache file it left
NextRun ==
    /\ pc = "done"
    /\ run < MaxRuns
    /\ run' = run + 1
    /\ history' = history \cup
          {<<KeyOfTask(i), IF resp[i] = EmptyResponse THEN "empty" ELSE "failed">> :
              i \in {j \in Tasks : resp[j] \in FailedResponses \cup {EmptyResponse}}}
    /\ pc' = "start"
    /\ cache' = EmptyDict
    /\ sorted_clusters' = <<>>
    /\ to_fetch' = <<>>
    /\ remainder' = <<>>
    /\ sem' = 0
    /\ tpc' = <<>>
    /\ entry' = <<>>
    /\ resp' = <<>>
    /\ result' = <<>>
    /\ completed' = <<>>
    /\ calls_issued' = 0
    /\ fetched' = <<>>
    /\ cache_saves' = 0
    /\ enriched' = <<>>
    /\ UNCHANGED <<raw_inputs, clusters, quota, cache_file, max_concurrent, enriched_file>>
    /\ UNCHANGED <<assembleVars, groupVars>>

Next ==
    \/ StartRun
    \/ \E i \in Tasks : TaskStart(i)
    \/ \E i \in Tasks : TaskAcquire(i)
    \/ \E i \in Tasks : TaskCall(i)
    \/ \E i \in Tasks : \E r \in Responses : TaskRespond(i, r)
    \/ GatherReturn
    \/ SaveCache
    \/ AssembleEnriched
    \/ SaveEnriched
    \/ NextRun

Spec == Init /\ [][Next]_vars

(***************************************************************************)
(* SpecAssemble: assemble_enriched, loop by loop, on bounded inputs.       *)
(***************************************************************************)
\* a scraped record of a book
BookRecord(title, author, club, source, month) ==
    [ title |-> title,
      author |-> author,
      category |-> "Previously Read",
      club_name |-> club,
      source_type |-> source,
      member_count |-> 0,
      discussion_url |-> "",
      month |-> month ]

\* the clusters handed to assemble_enriched: one record; two records of one
\* club under two spellings of the title; two clubs out of name order
AssembleClusters ==
    { build_cluster_from_books(<<"key", 1>>,
          << BookRecord(<<"D", "u", "n", "e">>, <<"H">>, <<"b">>, "Goodreads", "Jan") >>),
      build_cluster_from_books(<<"key", 2>>,
          << BookRecord(<<"d", "u", "n", "e", "!">>, <<"h">>, <<"a">>, "Reddit", "Jan"),
             BookRecord(<<"D", "u", "n", "e">>, <<"H">>, <<"a">>, "Reddit", "Feb") >>),
      build_cluster_from_books(<<"key", 3>>,
          << BookRecord(<<"E", "m", "m", "a">>, <<"A">>, <<"c">>, "Goodreads", "Jan"),
             BookRecord(<<"E", "m", "m", "a">>, <<"A">>, <<"B">>, "Goodreads", "Feb") >>) }

\* a value fetch_single returns for a found volume
ApiResult(gid, title, author, cats, pages, thumb) ==
    [ google_books_id |-> gid,
      canonical_title |-> title,
      canonical_author |-> author,
      categories |-> cats,
      page_count |-> pages,
      published_date |-> "2020-01-01",
      thumbnail |-> thumb,
      description |-> "A great book about testing." ]

\* the api_result values: no match; a volume without id; one id with full and
\* with empty metadata; two more ids of the same work under other spellings
ApiResults ==
    { Null,
      ApiResult("", <<"D", "u", "n", "e">>, <<"H">>, <<"Fiction">>, SomeInt(320), "t0"),
      ApiResult("gid_1", <<"D", "u", "n", "e">>, <<"H">>, <<"Fiction">>, SomeInt(320), "t1"),
      ApiResult("gid_1", <<"D", "u", "n", "e">>, <<"H">>, <<>>, NoneInt, ""),
      ApiResult("gid_2", <<"D", "U", "N", "E">>, <<"h", "!">>, <<"Drama">>, SomeInt(100), "t2"),
      ApiResult("gid_3", <<" ", "d", "u", "n", "e">>, <<"H">>, <<>>, SomeInt(0), "") }

FetchedItems ==
    {[cluster |-> c, api_result |-> r] : c \in AssembleClusters, r \in ApiResults}

InitAssemble ==
    /\ pc = "assemble"
    /\ \E n \in 0..MaxFetched : fetched \in [1..n -> FetchedItems]
    /\ \E n \in 0..MaxRemainder : remainder \in [1..n -> AssembleClusters]
    /\ raw_inputs = <<>>
    /\ clusters = <<>>
    /\ sorted_clusters = <<>>
    /\ quota = DAILY_API_QUOTA
    /\ to_fetch = <<>>
    /\ cache_file = NoFile
    /\ cache = EmptyDict
    /\ max_concurrent = MAX_CONCURRENT
    /\ sem = 0
    /\ tpc = <<>>
    /\ entry = <<>>
    /\ resp = <<>>
    /\ result = <<>>
    /\ completed = <<>>
    /\ calls_issued = 0
    /\ run = 1
    /\ history = {}
    /\ cache_saves = 0
    /\ enriched = <<>>
    /\ enriched_file = NoFile
    /\ AssembleIdle
    /\ GroupIdle

\* "for item in fetched"
AssembleFetched ==
    /\ pc = "assemble"
    /\ LET done == FetchedLoop([enriched_by_gid |-> <<>>, no_match |-> <<>>], fetched)
       IN  /\ enriched_by_gid' = done.enriched_by_gid
           /\ no_match' = done.no_match
    /\ pc' = "fetched_done"
    /\ UNCHANGED <<final_merged, all_enriched>>
    /\ UNCHANGED <<priorityVars, fetchVars, groupVars>>

\* "for cluster in remainder"
AssembleRemainder ==
    /\ pc = "fetched_done"
    /\ no_match' = RemainderLoop(no_match, remainder)
    /\ pc' = "remainder_done"
    /\ UNCHANGED <<enriched_by_gid, final_merged, all_enriched>>
    /\ UNCHANGED <<priorityVars, fetchVars, groupVars>>

\* "for entry in list(enriched_by_gid.values()) + no_match"
AssembleMerge ==
    /\ pc = "remainder_done"
    /\ final_merged' = MergeLoop(<<>>, enriched_by_gid \o no_match)
    /\ pc' = "merged"
    /\ UNCHANGED <<enriched_by_gid, no_match, all_enriched>>
    /\ UNCHANGED <<priorityVars, fetchVars, groupVars>>

\* the clubs of every entry sorted; return all_enriched
AssembleSort ==
    /\ pc = "merged"
    /\ all_enriched' = ClubsSortedIn(final_merged)
    /\ pc' = "assembled"
    /\ UNCHANGED <<enriched_by_gid, no_match, final_merged>>
    /\ UNCHANGED <<priorityVars, fetchVars, groupVars>>

NextAssemble ==
    \/ AssembleFetched
    \/ AssembleRemainder
    \/ AssembleMerge
    \/ AssembleSort

SpecAssemble == InitAssemble /\ [][NextAssemble]_vars

(***************************************************************************)
(* normalize_book_string (scraper/ml_deduplicate.py).  Each re call is an  *)
(* operator on character sequences that does what the pattern does.        *)
(***************************************************************************)
DropFirst(s, n) == SubSeq(s, n + 1, Len(s))
\* length of the whitespace run at the start of s
LeadingSpaces(s) == Len(s) - Len(LStrip(s))
\* s starts with w, letter case ignored
StartsWithIgnoreCase(s, w) ==
    Len(s) >= Len(w) /\ LowerStr(SubSeq(s, 1, Len(w))) = LowerStr(w)

\* re.sub(r"^\s*\[\s*", "", t)
StripOpeningBracket(t) ==
    LET rest == LStrip(t)
    IN  IF rest # <<>> /\ rest[1] = "[" THEN LStrip(Tail(rest)) ELSE t

\* re.sub(r"\s*\]\s*$", "", t)
StripClosingBracket(t) ==
    LET rest == RStrip(t)
    IN  IF rest # <<>> /\ rest[Len(rest)] = "]"
        THEN RStrip(SubSeq(rest, 1, Len(rest) - 1))
        ELSE t

\* re.sub(r"\[.*?\]", "", t) and re.sub(r"\(.*?\)", "", t): every span from an
\* opening character to the nearest closing one after it goes
RECURSIVE RemoveEnclosed(_, _, _)
RemoveEnclosed(t, open, close) ==
    IF t = <<>> THEN <<>>
    ELSE IF t[1] = open /\ \E k \in 2..Len(t) : t[k] = close
         THEN LET k == CHOOSE k \in 2..Len(t) :
                           t[k] = close /\ \A j \in 2..(k - 1) : t[j] # close
              IN  RemoveEnclosed(DropFirst(t, k), open, close)
         ELSE <<t[1]>> \o RemoveEnclosed(Tail(t), open, close)

\* length of the match of r":\s*<fluff>\b" (IGNORECASE) at the start of t, 0
\* when there is none
FluffMatch(t, fluff) ==
    IF t = <<>> \/ t[1] # ":" THEN 0
    ELSE LET n == LeadingSpaces(Tail(t))
             rest == DropFirst(t, 1 + n)
         IN  IF /\ StartsWithIgnoreCase(rest, fluff)
                /\ (Len(rest) = Len(fluff) \/ ~IsWord(rest[Len(fluff) + 1]))
             THEN 1 + n + Len(fluff)
             ELSE 0

\* re.sub(r":\s*a novel\b", "", t, flags=re.IGNORECASE) and its two siblings
RECURSIVE RemoveFluff(_, _)
RemoveFluff(t, fluff) ==
    IF t = <<>> THEN <<>>
    ELSE IF FluffMatch(t, fluff) > 0
         THEN RemoveFluff(DropFirst(t, FluffMatch(t, fluff)), fluff)
         ELSE <<t[1]>> \o RemoveFluff(Tail(t), fluff)

A_NOVEL == <<"a", " ", "n", "o", "v", "e", "l">>
A_MEMOIR == <<"a", " ", "m", "e", "m", "o", "i", "r">>
A_THRILLER == <<"a", " ", "t", "h", "r", "i", "l", "l", "e", "r">>
Articles == {<<"t", "h", "e">>, <<"a">>, <<"a", "n">>}

\* re.match(r"^(.+),\s*(The|A|An)$", t, re.IGNORECASE): the index of the comma
\* the match splits at, 0 when there is no match
CommaThe(t) ==
    LET commas == {k \in 2..Len(t) : t[k] = ","}
    IN  IF commas = {} THEN 0
        ELSE LET k == CHOOSE k \in commas : \A j \in commas : j <= k
             IN  IF LowerStr(LStrip(DropFirst(t, k))) \in Articles THEN k ELSE 0

\* t = f"{comma_the.group(2)} {comma_the.group(1)}"
ArticleFirst(t) ==
    LET k == CommaThe(t)
    IN  IF k = 0 THEN t
        ELSE LStrip(DropFirst(t, k)) \o <<" ">> \o SubSeq(t, 1, k - 1)

\* r"^(.+?)\s+by\s+(.+)$" (IGNORECASE) matches t with group(1) = t[1..i]
ByMatchAt(t, i) ==
    LET n == LeadingSpaces(DropFirst(t, i))
        rest == DropFirst(t, i + n)
    IN  /\ n >= 1
        /\ StartsWithIgnoreCase(rest, <<"b", "y">>)
        /\ Len(rest) >= 4
        /\ IsSpace(rest[3])

\* re.match(r"^(.+?)\s+by\s+(.+)$", t, re.IGNORECASE): <<group(1), group(2)>>,
\* or <<>> when there is no match
ByMatch(t) ==
    LET ends == {i \in 1..Len(t) : ByMatchAt(t, i)}
    IN  IF ends = {} THEN <<>>
        ELSE LET i == CHOOSE i \in ends : \A j \in ends : i <= j
                 after == DropFirst(t, i + LeadingSpaces(DropFirst(t, i)) + 2)
             IN  <<SubSeq(t, 1, i),
                   IF LStrip(after) = <<>> THEN <<" ">> ELSE LStrip(after)>>

\* [a-zA-Z0-9\s]
IsAlnumOrSpace(c) == IsWord(c) \/ IsSpace(c)

\* re.sub(r"\s+", " ", s)
RECURSIVE CollapseSpaces(_)
CollapseSpaces(s) ==
    IF s = <<>> THEN <<>>
    ELSE IF IsSpace(s[1]) THEN <<" ">> \o CollapseSpaces(LStrip(s))
    ELSE <<s[1]>> \o CollapseSpaces(Tail(s))

\* the last two statements on each of t and a: drop what is neither
\* alphanumeric nor whitespace, collapse whitespace, strip, lowercase
Cleaned(s) == LowerStr(Strip(CollapseSpaces(SelectSeq(s, IsAlnumOrSpace))))

\* the title after the bracket, parenthesis and subtitle steps
Unannotated(title) ==
    LET t1 == StripClosingBracket(StripOpeningBracket(Strip(title)))
        t2 == RemoveEnclosed(RemoveEnclosed(t1, "[", "]"), "(", ")")
    IN  RemoveFluff(RemoveFluff(RemoveFluff(t2, A_NOVEL), A_MEMOIR), A_THRILLER)

normalize_book_string(title, author) ==
    LET a0 == Strip(author)
        t0 == ArticleFirst(Unannotated(title))
        by == ByMatch(t0)
        split == by # <<>> /\ a0 = <<>>
        t == Cleaned(IF split THEN by[1] ELSE t0)
        a == Cleaned(IF split THEN by[2] ELSE a0)
    IN  IF t # <<>> /\ a # <<>> THEN t \o <<" ">> \o a
        ELSE IF t # <<>> THEN t ELSE a

(***************************************************************************)
(* pre_group_books.                                                        *)
(***************************************************************************)
HasGroup(groups_, key) == \E i \in 1..Len(groups_) : groups_[i].key = key
IndexOfGroup(groups_, key) == CHOOSE i \in 1..Len(groups_) : groups_[i].key = key

\* if key not in groups: groups[key] = []
GroupEnsured(groups_, key) ==
    IF HasGroup(groups_, key) THEN groups_
    ELSE Append(groups_, [key |-> key, books |-> <<>>])

GroupPrepended(groups_, key, book) ==
    LET g == GroupEnsured(groups_, key)
        i == IndexOfGroup(g, key)
    IN  [g EXCEPT ![i].books = <<book>> \o @]

\* groups[key].append(book)
GroupAppended(groups_, key, book) ==
    LET g == GroupEnsured(groups_, key)
        i == IndexOfGroup(g, key)
    IN  [g EXCEPT ![i].books = Append(@, book)]

(***************************************************************************)
(* SpecGroup: pre_group_books applied to bounded lists of records.         *)
(***************************************************************************)
\* titles spelled in the ways the scraped sources spell them
Titles ==
    { <<"D", "u">>,
      <<" ", "d", "U", " ">>,
      <<"[", " ", "D", "u", " ", "]">>,
      <<"D", "u", " ", "(", "1", ")">>,
      <<"D", "u", ":", " ", "a", " ", "n", "o", "v", "e", "l">>,
      <<"D", "u", ":", " ", "A", " ", " ", "N", "o", "v", "e", "l">>,
      <<"D", "u", ",", " ", "T", "h", "e">>,
      <<"d", "u", " ", ",", " ", " ", "t", "h", "e">>,
      <<"D", "u", " ", "b", "y", " ", "H">>,
      <<"d", "u", " ", " ", "B", "Y", " ", " ", "h">>,
      <<"(", "1", ")">>,
      <<"!", "!">>,
      <<" ">>,
      <<>> }

\* the (title, author) pairs drawn from: every title without an author, and
\* some with one
TitleAuthorPairs ==
    (Titles \X {<<>>}) \cup
    { <<<<"D", "u">>, <<"H">>>>,
      <<<<" ", "d", "U", " ">>, <<" ", "h">>>>,
      <<<<"D", "u", " ", "b", "y", " ", "H">>, <<"H">>>>,
      <<<<>>, <<"H">>>>,
      <<<<>>, <<"!">>>> }

\* the i-th record of a list; club_name tells records with equal text apart
RawBook(i, title, author) ==
    [title |-> title, author |-> author,
     club_name |-> <<"c", "l", "u", "b">> \o <<DigitChars[i + 1]>>]

\* the list of records with the given (title, author) pairs
RawBookList(pairs) == [i \in 1..Len(pairs) |-> RawBook(i, pairs[i][1], pairs[i][2])]

InitGroup ==
    /\ pc = "group"
    /\ raw_inputs = <<>>
    /\ clusters = <<>>
    /\ sorted_clusters = <<>>
    /\ quota = 0
    /\ to_fetch = <<>>
    /\ remainder = <<>>
    /\ FetchIdle
    /\ AssembleIdle
    /\ \E n \in 1..MaxRawBooks :
          \E pairs \in [1..n -> TitleAuthorPairs] : raw_books = RawBookList(pairs)
    /\ groups = <<>>
    /\ next_book = 1
    /\ ClusterIdle

\* one pass of the for loop whose key is not empty
GroupBook ==
    /\ pc = "group"
    /\ next_book <= Len(raw_books)
    /\ LET book == raw_books[next_book]
           key == normalize_book_string(book.title, book.author)
       IN  /\ key # <<>>
           /\ groups' = GroupAppended(groups, key, book)
    /\ next_book' = next_book + 1
    /\ UNCHANGED <<pc, raw_books, clusterVars, priorityVars, fetchVars, assembleVars>>

\* one pass of the for loop that takes "if not key: continue"
SkipBook ==
    /\ pc = "group"
    /\ next_book <= Len(raw_books)
    /\ LET book == raw_books[next_book]
       IN  normalize_book_string(book.title, book.author) = <<>>
    /\ next_book' = next_book + 1
    /\ UNCHANGED <<pc, raw_books, groups, clusterVars, priorityVars, fetchVars, assembleVars>>

\* return groups
ReturnGroups ==
    /\ pc = "group"
    /\ next_book > Len(raw_books)
    /\ pc' = "grouped"
    /\ UNCHANGED <<groupVars, priorityVars, fetchVars, assembleVars>>

NextGroup ==
    \/ GroupBook
    \/ SkipBook
    \/ ReturnGroups

SpecGroup == InitGroup /\ [][NextGroup]_vars

(***************************************************************************)
(* cluster_groups_ml and assign_priority (scraper/ml_deduplicate.py).      *)
(***************************************************************************)
\* list(groups.keys())
GroupKeys(groups_) == [i \in 1..Len(groups_) |-> groups_[i].key]
\* groups[k]
BooksOfKey(groups_, k) == groups_[IndexOfGroup(groups_, k)].books

\* the distinct labels in order of first appearance: the keys of cluster_map
RECURSIVE LabelsInOrder(_)
LabelsInOrder(labels_) ==
    IF labels_ = <<>> THEN <<>>
    ELSE LET before == LabelsInOrder(SubSeq(labels_, 1, Len(labels_) - 1))
             last == labels_[Len(labels_)]
         IN  IF \E i \in 1..Len(before) : before[i] = last THEN before
             ELSE Append(before, last)

\* cluster_map[label]: the keys given that label, in key order
RECURSIVE KeysOfLabel(_, _, _)
KeysOfLabel(keys, labels_, label) ==
    IF keys = <<>> THEN <<>>
    ELSE (IF labels_[1] = label THEN <<keys[1]>> ELSE <<>>)
         \o KeysOfLabel(Tail(keys), Tail(labels_), label)

\* all_books: groups[k] of every key of the cluster, extended in order
RECURSIVE AllBooks(_, _)
AllBooks(groups_, cluster_keys) ==
    IF cluster_keys = <<>> THEN <<>>
    ELSE BooksOfKey(groups_, cluster_keys[1]) \o AllBooks(groups_, Tail(cluster_keys))

\* max(cluster_keys, key=lambda k: len(groups[k])): the first of the largest
BestKey(groups_, cluster_keys) ==
    LET size(i) == Len(BooksOfKey(groups_, cluster_keys[i]))
        best == CHOOSE i \in 1..Len(cluster_keys) :
                    /\ \A j \in 1..Len(cluster_keys) : size(j) <= size(i)
                    /\ \A j \in 1..(i - 1) : size(j) < size(i)
    IN  cluster_keys[best]

MlClusterOf(rep, books) ==
    [representative_title |-> rep.title,
     representative_author |-> rep.author,
     books |-> books]

LabelClusterBestGroupOnly(groups_, cluster_keys) ==
    MlClusterOf(BooksOfKey(groups_, BestKey(groups_, cluster_keys))[1],
                BooksOfKey(groups_, BestKey(groups_, cluster_keys)))

\* the cluster of one label
LabelCluster(groups_, cluster_keys) ==
    MlClusterOf(BooksOfKey(groups_, BestKey(groups_, cluster_keys))[1],
                AllBooks(groups_, cluster_keys))

\* the clusters list built from the labels
ClustersOfLabels(groups_, labels_) ==
    LET order == LabelsInOrder(labels_)
    IN  [n \in 1..Len(order) |->
            LabelCluster(groups_, KeysOfLabel(GroupKeys(groups_), labels_, order[n]))]

\* f"{b.get('club_name', '')}|{b.get('source_type', '')}"
club_key(b) == b.club_name \o <<"|">> \o b.source_type

\* the clubs list of assign_priority: one entry per club_key, the first met
RECURSIVE DedupedClubs(_)
DedupedClubs(books) ==
    IF books = <<>> THEN <<>>
    ELSE LET before == DedupedClubs(SubSeq(books, 1, Len(books) - 1))
             b == books[Len(books)]
         IN  IF \E i \in 1..Len(before) : club_key(before[i]) = club_key(b)
             THEN before
             ELSE Append(before,
                         [club_name |-> b.club_name, source_type |-> b.source_type,
                          category |-> b.category, member_count |-> b.member_count])

assign_priority(cluster) ==
    LET has_currently_reading ==
            \E i \in 1..Len(cluster.books) :
                cluster.books[i].category = "Currently Reading"
        clubs == DedupedClubs(cluster.books)
    IN  [representative_title |-> cluster.representative_title,
         representative_author |-> cluster.representative_author,
         priority |-> IF has_currently_reading THEN "A" ELSE "B",
         has_currently_reading |-> has_currently_reading,
         club_count |-> Len(clubs),
         clubs |-> clubs]

(***************************************************************************)
(* SpecCluster: cluster_groups_ml, then assign_priority on each cluster,   *)
(* applied to bounded groups as pre_group_books returns them.              *)
(***************************************************************************)
REDDIT == <<"R", "e", "d", "d", "i", "t">>
GOODREADS == <<"G", "o", "o", "d", "r", "e", "a", "d", "s">>

GroupRecord(p, i, club, source, cat) ==
    [title |-> <<"Book", p, i>>, author |-> <<"Author", p>>,
     category |-> cat, club_name |-> club, source_type |-> source,
     member_count |-> 10 * p + i]

\* the record lists a group at position p can hold: one record; one club on
\* two sources; one club on one source twice; two clubs
GroupShapes(p) ==
    { <<GroupRecord(p, 1, <<"A">>, REDDIT, "Currently Reading")>>,
      <<GroupRecord(p, 1, <<"A">>, REDDIT, "Previously Read"),
        GroupRecord(p, 2, <<"A">>, GOODREADS, "Previously Read")>>,
      <<GroupRecord(p, 1, <<"A">>, REDDIT, "Previously Read"),
        GroupRecord(p, 2, <<"A">>, REDDIT, "Previously Read")>>,
      <<GroupRecord(p, 1, <<"A">>, REDDIT, "Previously Read"),
        GroupRecord(p, 2, <<"B">>, GOODREADS, "Currently Reading")>> }

InitCluster ==
    /\ pc = "cluster"
    /\ raw_inputs = <<>>
    /\ clusters = <<>>
    /\ sorted_clusters = <<>>
    /\ quota = 0
    /\ to_fetch = <<>>
    /\ remainder = <<>>
    /\ FetchIdle
    /\ AssembleIdle
    /\ raw_books = <<>>
    /\ next_book = 1
    /\ \E n \in 0..MaxGroups :
          \E shape \in [1..n -> UNION {GroupShapes(p) : p \in 1..n}] :
              /\ \A p \in 1..n : shape[p] \in GroupShapes(p)
              /\ groups = [p \in 1..n |-> [key |-> <<"key", p>>, books |-> shape[p]]]
    /\ ClusterIdle

\* if len(keys) == 0: return []
ClusterNone ==
    /\ pc = "cluster"
    /\ Len(groups) = 0
    /\ ml_clusters' = <<>>
    /\ pc' = "clustered"
    /\ UNCHANGED <<raw_books, groups, next_book, labels, prioritized,
                   scrapeVars, priorityVars, fetchVars, assembleVars>>

\* if len(keys) == 1: return the one cluster
ClusterSingle ==
    /\ pc = "cluster"
    /\ Len(groups) = 1
    /\ ml_clusters' = <<MlClusterOf(groups[1].books[1], groups[1].books)>>
    /\ pc' = "clustered"
    /\ UNCHANGED <<raw_books, groups, next_book, labels, prioritized,
                   scrapeVars, priorityVars, fetchVars, assembleVars>>

\* model.encode and clustering.fit_predict: one label per key, any labels
FitPredict ==
    /\ pc = "cluster"
    /\ Len(groups) >= 2
    /\ labels' \in [1..Len(groups) -> 0..(Len(groups) - 1)]
    /\ pc' = "labelled"
    /\ UNCHANGED <<raw_books, groups, next_book, ml_clusters, prioritized,
                   scrapeVars, priorityVars, fetchVars, assembleVars>>

\* the two loops that build cluster_map and clusters
ClusterAssemble ==
    /\ pc = "labelled"
    /\ ml_clusters' = ClustersOfLabels(groups, labels)
    /\ pc' = "clustered"
    /\ UNCHANGED <<raw_books, groups, next_book, labels, prioritized,
                   scrapeVars, priorityVars, fetchVars, assembleVars>>

\* prioritized = [assign_priority(c) for c in clusters]
AssignPriorities ==
    /\ pc = "clustered"
    /\ prioritized' = [n \in 1..Len(ml_clusters) |-> assign_priority(ml_clusters[n])]
    /\ pc' = "prioritized"
    /\ UNCHANGED <<raw_books, groups, next_book, labels, ml_clusters,
                   scrapeVars, priorityVars, fetchVars, assembleVars>>

NextCluster ==
    \/ ClusterNone
    \/ ClusterSingle
    \/ FitPredict
    \/ ClusterAssemble
    \/ AssignPriorities

SpecCluster == InitCluster /\ [][NextCluster]_vars

(***************************************************************************)
(* SpecScrape: main of scrape_goodreads_groups.py, run after run.          *)
(* A run loads the checkpoint, discovers the groups and scrapes those not  *)
(* yet completed, saving the checkpoint after each; KeyboardInterrupt is   *)
(* raised between any two statements of the try block, and outside it      *)
(* ends the process.                                                       *)
(***************************************************************************)
\* CHECKPOINT_FILE absent; {"completed_groups": [...], "books": [...]} saved
NoCheckpoint == [state |-> "missing"]
save_checkpoint(done, books_) ==
    [state |-> "ok", completed_groups |-> done, books |-> books_]

\* load_checkpoint: the saved data, or {"completed_groups": [], "books": []}
load_checkpoint(file) ==
    IF file.state = "ok"
    THEN [completed_groups |-> file.completed_groups, books |-> file.books]
    ELSE [completed_groups |-> {}, books |-> <<>>]

\* OUTPUT_FILE absent, and as save_results writes it
NoResults == [state |-> "missing"]
save_results(books_, groups_) ==
    [state |-> "ok", total_groups_scraped |-> Len(groups_),
     total_books |-> Len(books_), books |-> books_]

\* group_id of the groups of the site
GroupIds == 1..MaxScrapeGroups

\* what discover_popular_groups can return: the groups of the pages that
\* answered, in page order, each group_id once
RECURSIVE Ascending(_)
Ascending(ids) ==
    IF ids = {} THEN <<>>
    ELSE LET least == CHOOSE g \in ids : \A h \in ids : g <= h
         IN  <<least>> \o Ascending(ids \ {least})
Discoveries == {Ascending(ids) : ids \in SUBSET GroupIds}

\* the records scrape_group_books builds for group g: those of the
\* "currently-reading" shelf, then those of the "read" shelf
ShelfRecord(g, label) ==
    [club_name |-> g, category |-> label, source_type |-> "Goodreads"]
ShelfResults(g) ==
    { <<ShelfRecord(g, "Previously Read")>>,
      <<ShelfRecord(g, "Currently Reading"), ShelfRecord(g, "Previously Read")>> }

\* remaining = [g for g in groups if g["group_id"] not in completed]
NotCompleted(g) == g \notin completed_groups'
Remaining(groups_) == SelectSeq(groups_, NotCompleted)

\* the group the for loop is at
Group == remaining[1]

\* positions inside the try block of the loop body
InTry == {"scraping", "extend", "add", "save"}

otherVars == <<priorityVars, fetchVars, assembleVars, raw_books, groups, next_book,
               labels, ml_clusters, prioritized>>

InitScrape ==
    /\ pc = "main"
    /\ raw_inputs = <<>>
    /\ clusters = <<>>
    /\ sorted_clusters = <<>>
    /\ quota = 0
    /\ to_fetch = <<>>
    /\ remainder = <<>>
    /\ FetchIdle
    /\ AssembleIdle
    /\ GroupIdle

\* main from load_checkpoint to the start of the loop
LoadAndDiscover ==
    /\ pc = "main"
    /\ completed_groups' = load_checkpoint(checkpoint_file).completed_groups
    /\ all_books' = load_checkpoint(checkpoint_file).books
    /\ \E found \in Discoveries :
          /\ scrape_groups' = found
          /\ IF found = <<>>
             THEN /\ remaining' = <<>>
                  /\ pc' = "returned"
             ELSE /\ remaining' = Remaining(found)
                  /\ pc' = "loop"
    /\ UNCHANGED <<checkpoint_file, output_file, scraped, scrape_run>>
    /\ UNCHANGED otherVars

\* the for statement: the next group, or the end of the loop
LoopNext ==
    /\ pc = "loop"
    /\ pc' = IF remaining = <<>> THEN "results" ELSE "scraping"
    /\ UNCHANGED scrapeVars
    /\ UNCHANGED otherVars

\* books = scrape_group_books(group, checkpoint)
ScrapeReturns ==
    /\ pc = "scraping"
    /\ scraped' \in ShelfResults(Group)
    /\ pc' = "extend"
    /\ UNCHANGED <<checkpoint_file, output_file, completed_groups, all_books,
                   scrape_groups, remaining, scrape_run>>
    /\ UNCHANGED otherVars

\* scrape_group_books raises: "except Exception" saves the checkpoint and
\* continues with the next group
ScrapeRaises ==
    /\ pc = "scraping"
    /\ checkpoint_file' = save_checkpoint(completed_groups, all_books)
    /\ remaining' = Tail(remaining)
    /\ pc' = "loop"
    /\ UNCHANGED <<output_file, completed_groups, all_books, scrape_groups,
                   scraped, scrape_run>>
    /\ UNCHANGED otherVars

\* all_books.extend(books)
ExtendBooks ==
    /\ pc = "extend"
    /\ all_books' = all_books \o scraped
    /\ pc' = "add"
    /\ UNCHANGED <<checkpoint_file, output_file, completed_groups, scrape_groups,
                   remaining, scraped, scrape_run>>
    /\ UNCHANGED otherVars

\* completed.add(group["group_id"])
AddCompleted ==
    /\ pc = "add"
    /\ completed_groups' = completed_groups \cup {Group}
    /\ pc' = "save"
    /\ UNCHANGED <<checkpoint_file, output_file, all_books, scrape_groups,
                   remaining, scraped, scrape_run>>
    /\ UNCHANGED otherVars

\* save_checkpoint({...}) at the end of the try block
SaveCheckpoint ==
    /\ pc = "save"
    /\ checkpoint_file' = save_checkpoint(completed_groups, all_books)
    /\ remaining' = Tail(remaining)
    /\ pc' = "loop"
    /\ UNCHANGED <<output_file, completed_groups, all_books, scrape_groups,
                   scraped, scrape_run>>
    /\ UNCHANGED otherVars

\* KeyboardInterrupt inside the try block, before the statement the run is
\* at has taken effect: the handler saves the checkpoint and main returns
Interrupt ==
    /\ pc \in InTry
    /\ checkpoint_file' = save_checkpoint(completed_groups, all_books)
    /\ pc' = "interrupted"
    /\ UNCHANGED <<output_file, completed_groups, all_books, scrape_groups,
                   remaining, scraped, scrape_run>>
    /\ UNCHANGED otherVars

\* KeyboardInterrupt outside the try block: no handler, the process ends
Kill ==
    /\ pc \in {"main", "loop", "results", "clear"}
    /\ pc' = "killed"
    /\ UNCHANGED scrapeVars
    /\ UNCHANGED otherVars

\* save_results(all_books, groups)
SaveResults ==
    /\ pc = "results"
    /\ output_file' = save_results(all_books, scrape_groups)
    /\ pc' = "clear"
    /\ UNCHANGED <<checkpoint_file, completed_groups, all_books, scrape_groups,
                   remaining, scraped, scrape_run>>
    /\ UNCHANGED otherVars

\* clear_checkpoint(), and main returns after the summary
ClearCheckpoint ==
    /\ pc = "clear"
    /\ checkpoint_file' = NoCheckpoint
    /\ pc' = "finished"
    /\ UNCHANGED <<output_file, completed_groups, all_books, scrape_groups,
                   remaining, scraped, scrape_run>>
    /\ UNCHANGED otherVars

\* the scraper is started again, with the files the last run left
Rerun ==
    /\ pc \in {"interrupted", "killed", "finished", "returned"}
    /\ scrape_run < MaxScrapeRuns
    /\ scrape_run' = scrape_run + 1
    /\ pc' = "main"
    /\ completed_groups' = {}
    /\ all_books' = <<>>
    /\ scrape_groups' = <<>>
    /\ remaining' = <<>>
    /\ scraped' = <<>>
    /\ UNCHANGED <<checkpoint_file, output_file>>
    /\ UNCHANGED otherVars

NextScrape ==
    \/ LoadAndDiscover
    \/ LoopNext
    \/ ScrapeReturns
    \/ ScrapeRaises
    \/ ExtendBooks
    \/ AddCompleted
    \/ SaveCheckpoint
    \/ Interrupt
    \/ Kill
    \/ SaveResults
    \/ ClearCheckpoint
    \/ Rerun

SpecScrape == InitScrape /\ [][NextScrape]_vars

(***************************************************************************)
(* Claims about scoring, sorting and slicing (checked under SpecPriority). *)
(***************************************************************************)
ScoreOf(s, i) == compute_priority_score(s[i])

Bijections(n) == {f \in [1..n -> 1..n] : \A i, j \in 1..n : f[i] = f[j] => i = j}

\* C1: every currently-reading cluster scores strictly above every
\* non-currently-reading cluster, for clusters whose records carry member
\* counts up to MaxMemberCount summed over the cluster's records.
C1_CurrentlyReadingOutranks ==
    pc # "raw" =>
        \A i, j \in 1..Len(clusters) :
            (clusters[i].is_currently_reading /\ ~clusters[j].is_currently_reading)
                => ScoreOf(clusters, i) > ScoreOf(clusters, j)

\* C2: the sorted list is a permutation of the input, its scores never
\* increase from one position to the next, and clusters of equal score keep
\* their input order.
C2_SortStablePermutation ==
    pc \in {"sorted", "sliced"} =>
        /\ Len(sorted_clusters) = Len(clusters)
        /\ \A k \in 1..(Len(sorted_clusters) - 1) :
              ScoreOf(sorted_clusters, k) >= ScoreOf(sorted_clusters, k + 1)
        /\ \E f \in Bijections(Len(clusters)) :
              /\ \A i \in 1..Len(clusters) : sorted_clusters[f[i]] = clusters[i]
              /\ \A i, j \in 1..Len(clusters) :
                    (i < j /\ ScoreOf(clusters, i) = ScoreOf(clusters, j)) => f[i] < f[j]

\* a sort that had to move a cluster past two others of equal score
C2_Witness ==
    /\ pc = "sorted"
    /\ Len(clusters) = 3
    /\ ScoreOf(clusters, 1) < ScoreOf(clusters, 2)
    /\ ScoreOf(clusters, 2) = ScoreOf(clusters, 3)
    /\ sorted_clusters = <<clusters[2], clusters[3], clusters[1]>>

\* C3: for a non-negative quota q, to_fetch has min(q, len) clusters,
\* to_fetch followed by remainder is the input in the same order, and
\* remainder is empty when q >= len.
C3_SliceSplitsInOrder ==
    (pc = "sliced" /\ quota >= 0) =>
        /\ Len(to_fetch) = Min(quota, Len(sorted_clusters))
        /\ to_fetch \o remainder = sorted_clusters
        /\ (quota >= Len(sorted_clusters) => remainder = <<>>)

\* a slice that cuts a three-cluster list after its second cluster
C3_Witness ==
    /\ pc = "sliced"
    /\ quota = 2
    /\ Len(sorted_clusters) = 3
    /\ Len(to_fetch) = 2
    /\ remainder = <<sorted_clusters[3]>>

CurrentlyReadingIn(s) == {i \in 1..Len(s) : s[i].is_currently_reading}

\* C4: after sorting and slicing with quota q, when at most q clusters are
\* currently-reading, every currently-reading cluster is in to_fetch,
\* whatever the other clusters' member and club counts.
C4_CurrentlyReadingWithinBudget ==
    (pc = "sliced" /\ quota >= 0
        /\ Cardinality(CurrentlyReadingIn(clusters)) <= quota) =>
        \A i \in CurrentlyReadingIn(clusters) :
            \E j \in 1..Len(to_fetch) : to_fetch[j] = clusters[i]

(***************************************************************************)
(* Claims about the lookups of enrich_pipeline (checked under Spec).       *)
(***************************************************************************)
\* C5: in one run with quota q the external calls issued number at most q
\* (a negative quota leaves room for none) and at most the number of clusters.
C5_CallsWithinQuota ==
    /\ calls_issued <= Max(quota, 0)
    /\ calls_issued <= Len(clusters)

\* task i takes its first step inside the batch
Enters(i) ==
    /\ pc = "batch"
    /\ pc' = "batch"
    /\ i \in DOMAIN tpc
    /\ tpc[i] = "ready"
    /\ tpc'[i] # "ready"

\* task i gets the answer to its call and returns
Answered(i) ==
    /\ pc = "batch"
    /\ pc' = "batch"
    /\ i \in DOMAIN tpc
    /\ tpc[i] = "calling"
    /\ tpc'[i] = "done"

\* C6: a lookup whose key is in the cache on entry returns the cached value
\* (the no-match null included) at once: no external call, no wait on the
\* gate, no delay, the cache left as it was.
C6_CacheHitShortCircuits ==
    [][\A i \in DOMAIN tpc :
          (Enters(i) /\ KeyOfTask(i) \in DOMAIN cache) =>
              /\ tpc'[i] = "done"
              /\ result'[i] = cache[KeyOfTask(i)]
              /\ resp'[i] = NoResponse
              /\ calls_issued' = calls_issued
              /\ sem' = sem
              /\ cache' = cache]_vars

\* a lookup answered from a null entry while the gate is taken and another
\* lookup is queued at it
C6_Witness ==
    /\ pc = "batch"
    /\ \E i, j \in DOMAIN tpc :
          /\ tpc[i] = "done"
          /\ entry[i] = "hit"
          /\ result[i] = Null
          /\ resp[i] = NoResponse
          /\ tpc[j] = "waiting"
          /\ sem = 0

\* the cache a lookup would find: the loaded file before the run has loaded it
CacheView == IF pc = "start" THEN load_cache(cache_file) ELSE cache
KnownMiss(k) == k \in DOMAIN CacheView /\ CacheView[k] = Null
InFlight(k) ==
    \E i \in DOMAIN tpc :
        tpc[i] \in {"waiting", "sleeping", "calling"} /\ KeyOfTask(i) = k

C8_FailureNotCached ==
    [][/\ \A i \in DOMAIN tpc :
              (Answered(i) /\ resp'[i] \in FailedResponses) =>
                  /\ result'[i] = Null
                  /\ cache' = cache
       /\ \A i \in DOMAIN tpc :
              (Enters(i) /\ KeyOfTask(i) \notin DOMAIN cache) =>
                  /\ tpc'[i] \in {"waiting", "sleeping"}
                  /\ entry'[i] = "miss"]_vars

\* a later run calls again for a key whose lookup failed in an earlier run
C8_Witness ==
    /\ run > 1
    /\ pc = "batch"
    /\ \E i \in DOMAIN tpc :
          /\ <<KeyOfTask(i), "failed">> \in history
          /\ KeyOfTask(i) \notin DOMAIN cache
          /\ tpc[i] = "calling"

\* C9: the lookups between acquiring the gate and finishing their external
\* call never number more than max_concurrent.
C9_GateBound ==
    pc = "batch" =>
        /\ Cardinality(InGate) <= max_concurrent
        /\ sem = max_concurrent - Cardinality(InGate)

\* the gate full with two lookups inside and a third queued
C9_Witness ==
    /\ pc = "batch"
    /\ max_concurrent = 2
    /\ Cardinality(InGate) = 2
    /\ \E j \in DOMAIN tpc : tpc[j] = "waiting"

\* C10: fetch_batch returns one item per input cluster, in input order, and
\* each item's api_result is what the lookup of that item's own cluster
\* produced: the parsed answer to its call, or the entry it found cached.
C10_ResultsPairedWithClusters ==
    pc \in {"fetched", "saved"} =>
        /\ Len(fetched) = Len(to_fetch)
        /\ \A i \in 1..Len(to_fetch) :
              /\ fetched[i].cluster = to_fetch[i]
              /\ entry[i] = "miss" => fetched[i].api_result = ResultOf(resp[i])
              /\ entry[i] = "hit" => fetched[i].api_result = result[i]

\* lookups that finished in another order than their clusters were given,
\* with different results
C10_Witness ==
    /\ pc = "fetched"
    /\ Len(fetched) >= 2
    /\ completed[1] # 1
    /\ fetched[1].api_result # fetched[completed[1]].api_result

\* C11: fetch_batch never raises and never gets stuck; a failed lookup gives
\* null for its own cluster, and every cluster's result is fixed by the cache
\* the batch started with and the answer to that cluster's own call, whatever
\* happened to the other lookups.
C11_FailureStaysLocal ==
    /\ pc # "raised"
    /\ \A i \in DOMAIN tpc : tpc[i] # "raised"
    /\ pc = "batch" =>
          \/ \A i \in Tasks : tpc[i] = "done"
          \/ \E i \in Tasks : tpc[i] \in {"ready", "sleeping", "calling"}
          \/ \E i \in Tasks : tpc[i] = "waiting" /\ sem > 0
    /\ pc = "fetched" =>
          /\ Len(fetched) = Len(to_fetch)
          /\ \A i \in Tasks :
                LET k == KeyOfTask(i)
                    started_with == load_cache(cache_file)
                IN  /\ fetched[i].api_result =
                          IF k \in DOMAIN started_with THEN started_with[k]
                          ELSE ResultOf(resp[i])
                    /\ resp[i] \in FailedResponses => fetched[i].api_result = Null

\* a batch in which one lookup failed and another, made after it, found its
\* volume
C11_Witness ==
    /\ pc = "fetched"
    /\ \E i, j \in Tasks :
          /\ i < j
          /\ resp[i] \in FailedResponses
          /\ fetched[i].api_result = Null
          /\ resp[j] = FoundResponse(1)
          /\ fetched[j].api_result = ParseVolume(VolumeItem(1))

(***************************************************************************)
(* Claims about assemble_enriched (checked under SpecAssemble).            *)
(***************************************************************************)
GidOf(e) == IF "google_books_id" \in DOMAIN e THEN e.google_books_id ELSE ""
Resolved == {i \in 1..Len(fetched) : ~LacksId(fetched[i].api_result)}
ResolvedGids == {fetched[i].api_result.google_books_id : i \in Resolved}
ItemsOf(g) == {i \in Resolved : fetched[i].api_result.google_books_id = g}
FirstItemOf(g) == CHOOSE i \in ItemsOf(g) : \A j \in ItemsOf(g) : i <= j
HoldersOf(g) == {i \in 1..Len(all_enriched) : GidOf(all_enriched[i]) = g}

RECURSIVE SumOfNumClubs(_)
SumOfNumClubs(items) ==
    IF items = {} THEN 0
    ELSE LET i == CHOOSE i \in items : TRUE
         IN  fetched[i].cluster.num_clubs + SumOfNumClubs(items \ {i})

RECURSIVE SumOfRecords(_)
SumOfRecords(items) ==
    IF items = {} THEN 0
    ELSE LET i == CHOOSE i \in items : TRUE
         IN  Len(fetched[i].cluster.books) + SumOfRecords(items \ {i})

\* the entries the second merge pass goes through, in its order
Processed == enriched_by_gid \o no_match
SameKeyAs(i) == {j \in 1..Len(Processed) : merge_key(Processed[j]) = merge_key(Processed[i])}

\* C12 as stated: every id that fetched clusters resolve to has exactly one
\* entry in the returned list, and that entry's clubs list is as long as the
\* sum of those clusters' club counts (num_clubs).
C12_OneEntryPerIdAsStated ==
    pc = "assembled" =>
        \A g \in ResolvedGids :
            /\ Cardinality(HoldersOf(g)) = 1
            /\ \A h \in HoldersOf(g) :
                  Len(all_enriched[h].clubs) = SumOfNumClubs(ItemsOf(g))

\* C12 amended: the external-id pass leaves exactly one entry per id, with one
\* club record per record of the clusters that resolve to it; the returned
\* list has at most one entry with that id, exactly one unless an entry of
\* another id with the same merge key came before it, and when no other entry
\* has its merge key the returned entry's clubs list is as long as the sum of
\* the record counts of those clusters.
C12_OneEntryPerId ==
    /\ pc \in {"fetched_done", "remainder_done", "merged", "assembled"} =>
          \A g \in ResolvedGids :
              /\ Cardinality({i \in 1..Len(enriched_by_gid) :
                                 enriched_by_gid[i].google_books_id = g}) = 1
              /\ Len(enriched_by_gid[IndexOfGid(enriched_by_gid, g)].clubs)
                    = SumOfRecords(ItemsOf(g))
    /\ pc = "assembled" =>
          \A g \in ResolvedGids :
              LET i == IndexOfGid(enriched_by_gid, g)
              IN  /\ Cardinality(HoldersOf(g)) <= 1
                  /\ (\A j \in SameKeyAs(i) : j >= i) => Cardinality(HoldersOf(g)) = 1
                  /\ SameKeyAs(i) = {i} =>
                        \A h \in HoldersOf(g) :
                            Len(all_enriched[h].clubs) = SumOfRecords(ItemsOf(g))

\* two clusters of three records in all resolve to one id and nothing else
\* shares the entry's merge key
C12_Witness ==
    /\ pc = "assembled"
    /\ \E g \in ResolvedGids :
          /\ Cardinality(ItemsOf(g)) = 2
          /\ SumOfRecords(ItemsOf(g)) = 3
          /\ SameKeyAs(IndexOfGid(enriched_by_gid, g)) = {IndexOfGid(enriched_by_gid, g)}
          /\ \E h \in HoldersOf(g) : Len(all_enriched[h].clubs) = 3

\* C13: the entry of an external id carries the metadata of the first fetched
\* item with that id; later items with the id change none of it.  In the
\* returned list the entry with that id still has the first item's title,
\* author, published date and description, and its categories, page count
\* and thumbnail wherever the first item's value is not empty.
C13_FirstItemSetsMetadata ==
    /\ pc \in {"fetched_done", "remainder_done", "merged", "assembled"} =>
          \A g \in ResolvedGids :
              LET e == enriched_by_gid[IndexOfGid(enriched_by_gid, g)]
                  first == fetched[FirstItemOf(g)].api_result
              IN  /\ e.canonical_title = first.canonical_title
                  /\ e.canonical_author = first.canonical_author
                  /\ e.categories = first.categories
                  /\ e.page_count = first.page_count
                  /\ e.published_date = first.published_date
                  /\ e.thumbnail = first.thumbnail
                  /\ e.description = first.description
    /\ pc = "assembled" =>
          \A g \in ResolvedGids : \A h \in HoldersOf(g) :
              LET e == all_enriched[h]
                  first == fetched[FirstItemOf(g)].api_result
              IN  /\ e.canonical_title = first.canonical_title
                  /\ e.canonical_author = first.canonical_author
                  /\ e.published_date = first.published_date
                  /\ e.description = first.description
                  /\ first.categories # <<>> => e.categories = first.categories
                  /\ first.page_count \notin {NoneInt, SomeInt(0)} =>
                        e.page_count = first.page_count
                  /\ first.thumbnail # "" => e.thumbnail = first.thumbnail

\* two items with one id and different metadata: the returned entry has the
\* first item's categories and the club records of both
C13_Witness ==
    /\ pc = "assembled"
    /\ Len(fetched) = 2
    /\ ItemsOf("gid_1") = {1, 2}
    /\ fetched[1].api_result.categories # fetched[2].api_result.categories
    /\ \E h \in HoldersOf("gid_1") :
          /\ all_enriched[h].categories = fetched[1].api_result.categories
          /\ Len(all_enriched[h].clubs) =
                Len(fetched[1].cluster.books) + Len(fetched[2].cluster.books)

\* the fetched items without a usable id, in input order
LackingItems == SelectSeq(fetched, LAMBDA item : LacksId(item.api_result))

\* e is the raw-fallback entry of the cluster
IsRawFallbackOf(e, cluster) ==
    /\ DOMAIN e = {"canonical_title", "canonical_author", "categories", "page_count",
                   "published_date", "thumbnail", "description", "clubs"}
    /\ e.canonical_title = cluster.representative_title
    /\ e.canonical_author = cluster.representative_author
    /\ e.categories = <<>>
    /\ e.page_count = NoneInt
    /\ e.published_date = ""
    /\ e.thumbnail = ""
    /\ e.description = ""
    /\ Len(e.clubs) = Len(cluster.books)
    /\ \A i \in 1..Len(cluster.books) :
          e.clubs[i] = [ club_name |-> cluster.books[i].club_name,
                         source_type |-> cluster.books[i].source_type,
                         discussion_url |-> cluster.books[i].discussion_url,
                         month |-> cluster.books[i].month,
                         original_title |-> cluster.books[i].title ]

\* C14: every fetched item whose result is null or has no external id, and
\* every remainder cluster, becomes one raw-fallback entry of the same shape:
\* canonical title and author are the cluster's representative ones,
\* categories empty, page count absent, thumbnail, description and published
\* date empty, one club record per record of the cluster.
C14_RawFallbackShape ==
    /\ pc = "fetched_done" =>
          /\ Len(no_match) = Len(LackingItems)
          /\ \A k \in 1..Len(LackingItems) :
                IsRawFallbackOf(no_match[k], LackingItems[k].cluster)
    /\ pc \in {"remainder_done", "merged", "assembled"} =>
          /\ Len(no_match) = Len(LackingItems) + Len(remainder)
          /\ \A k \in 1..Len(LackingItems) :
                IsRawFallbackOf(no_match[k], LackingItems[k].cluster)
          /\ \A k \in 1..Len(remainder) :
                IsRawFallbackOf(no_match[Len(LackingItems) + k], remainder[k])

\* one cluster given three times, with a null result, with a result without
\* id and as remainder: three equal raw entries
C14_Witness ==
    /\ pc = "remainder_done"
    /\ Len(fetched) = 2
    /\ Len(remainder) = 1
    /\ fetched[1].api_result = Null
    /\ fetched[2].api_result # Null
    /\ fetched[2].api_result.google_books_id = ""
    /\ fetched[1].cluster = remainder[1]
    /\ fetched[2].cluster = remainder[1]
    /\ Len(remainder[1].books) = 2
    /\ no_match = <<no_match[3], no_match[3], no_match[3]>>

\* the entries that are the first of their merge key, and the m-th of them
FirstOfKey == {i \in 1..Len(Processed) : \A j \in SameKeyAs(i) : j >= i}
BaseIndex(m) == CHOOSE i \in FirstOfKey : Cardinality({j \in FirstOfKey : j <= i}) = m

\* the club lists of the entries S, joined in processing order
RECURSIVE ClubsJoined(_)
ClubsJoined(S) ==
    IF S = {} THEN <<>>
    ELSE LET i == CHOOSE i \in S : \A j \in S : i <= j
         IN  Processed[i].clubs \o ClubsJoined(S \ {i})

\* C15: no two returned entries have the same normalized (canonical_title,
\* canonical_author) key; each key's entry is the first entry with that key in
\* processing order (external-id entries, then raw fallbacks) and its clubs
\* are the clubs of all entries with that key, later ones appended.
C15_OneEntryPerMergeKey ==
    /\ pc = "assembled" =>
          /\ \A a, b \in 1..Len(all_enriched) :
                merge_key(all_enriched[a]) = merge_key(all_enriched[b]) => a = b
          /\ Len(all_enriched) = Len(final_merged)
          /\ \A m \in 1..Len(all_enriched) :
                /\ merge_key(all_enriched[m]) = merge_key(final_merged[m])
                /\ Len(all_enriched[m].clubs) = Len(final_merged[m].clubs)
    /\ pc \in {"merged", "assembled"} =>
          /\ Len(final_merged) = Cardinality(FirstOfKey)
          /\ \A m \in 1..Len(final_merged) :
                LET base == Processed[BaseIndex(m)]
                IN  /\ final_merged[m].canonical_title = base.canonical_title
                    /\ final_merged[m].canonical_author = base.canonical_author
                    /\ GidOf(final_merged[m]) = GidOf(base)
                    /\ final_merged[m].clubs = ClubsJoined(SameKeyAs(BaseIndex(m)))

\* three entries spelled three ways (two ids and a raw fallback) collapse into
\* the first
C15_Witness ==
    /\ pc = "assembled"
    /\ Len(Processed) = 3
    /\ Len(enriched_by_gid) = 2
    /\ Processed[1].canonical_title # Processed[2].canonical_title
    /\ Processed[2].canonical_title # Processed[3].canonical_title
    /\ Processed[1].canonical_title # Processed[3].canonical_title
    /\ Len(all_enriched) = 1
    /\ GidOf(all_enriched[1]) = Processed[1].google_books_id
    /\ Len(all_enriched[1].clubs) =
          Len(Processed[1].clubs) + Len(Processed[2].clubs) + Len(Processed[3].clubs)

\* the later entries of the key of base entry i that have a non-empty value
LaterWithCategories(i) ==
    {j \in SameKeyAs(i) \ {i} : Processed[j].categories # <<>>}
LaterWithPageCount(i) ==
    {j \in SameKeyAs(i) \ {i} : Processed[j].page_count \notin {NoneInt, SomeInt(0)}}
LaterWithThumbnail(i) ==
    {j \in SameKeyAs(i) \ {i} : Processed[j].thumbnail # ""}

\* C16: in the second merge pass the base entry's categories, page_count and
\* thumbnail each change only when the base value is empty (an empty list,
\* None or 0, an empty string) and a later entry of the key has a non-empty
\* one, which it then takes; a non-empty base value stays.
C16_BackfillOnlyEmpty ==
    pc \in {"merged", "assembled"} =>
        \A m \in 1..Len(final_merged) :
            LET i == BaseIndex(m)
                base == Processed[i]
                e == final_merged[m]
            IN  /\ base.categories # <<>> => e.categories = base.categories
                /\ base.page_count \notin {NoneInt, SomeInt(0)} =>
                      e.page_count = base.page_count
                /\ base.thumbnail # "" => e.thumbnail = base.thumbnail
                /\ e.categories # base.categories =>
                      \E j \in LaterWithCategories(i) : e.categories = Processed[j].categories
                /\ e.page_count # base.page_count =>
                      \E j \in LaterWithPageCount(i) : e.page_count = Processed[j].page_count
                /\ e.thumbnail # base.thumbnail =>
                      \E j \in LaterWithThumbnail(i) : e.thumbnail = Processed[j].thumbnail
                /\ (base.categories = <<>> /\ LaterWithCategories(i) # {}) =>
                      e.categories # <<>>
                /\ (base.page_count \in {NoneInt, SomeInt(0)} /\ LaterWithPageCount(i) # {}) =>
                      e.page_count \notin {NoneInt, SomeInt(0)}
                /\ (base.thumbnail = "" /\ LaterWithThumbnail(i) # {}) =>
                      e.thumbnail # ""
                /\ pc = "assembled" =>
                      /\ all_enriched[m].categories = e.categories
                      /\ all_enriched[m].page_count = e.page_count
                      /\ all_enriched[m].thumbnail = e.thumbnail

\* a base with empty categories, page count and thumbnail takes them from a
\* later entry of its key
C16_Witness ==
    /\ pc = "assembled"
    /\ Len(all_enriched) = 1
    /\ Len(enriched_by_gid) = 2
    /\ Processed[1].categories = <<>>
    /\ Processed[1].page_count = NoneInt
    /\ Processed[1].thumbnail = ""
    /\ all_enriched[1].google_books_id = Processed[1].google_books_id
    /\ all_enriched[1].categories = Processed[2].categories
    /\ all_enriched[1].categories # <<>>
    /\ all_enriched[1].page_count = SomeInt(100)
    /\ all_enriched[1].thumbnail = "t2"

\* club record x sorts strictly before y / ties with y
ClubBefore(x, y) ==
    \/ x.source_type = "Reddit" /\ y.source_type # "Reddit"
    \/ /\ (x.source_type = "Reddit") = (y.source_type = "Reddit")
       /\ StrLess(x.club_name, y.club_name)
ClubTie(x, y) ==
    /\ (x.source_type = "Reddit") = (y.source_type = "Reddit")
    /\ x.club_name = y.club_name

\* the place of the j-th appended record in the sorted list
ClubRank(clubs, j) ==
    Cardinality({i \in 1..Len(clubs) : ClubBefore(clubs[i], clubs[j])})
    + Cardinality({i \in 1..j : ClubTie(clubs[i], clubs[j])})

\* C17: in every returned entry the club records of source_type "Reddit" come
\* before all others, within each of the two parts club_name ascends, and
\* records equal on both keys keep the order in which they were appended.
C17_ClubsSorted ==
    pc = "assembled" =>
        \A m \in 1..Len(all_enriched) :
            LET appended == final_merged[m].clubs
                sorted == all_enriched[m].clubs
            IN  /\ Len(sorted) = Len(appended)
                /\ \A a, b \in 1..Len(sorted) :
                      a < b => ~ClubBefore(sorted[b], sorted[a])
                /\ \A j \in 1..Len(appended) :
                      sorted[ClubRank(appended, j)] = appended[j]

\* an entry whose records were appended with a Goodreads club first and two
\* records of one Reddit club after it
C17_Witness ==
    /\ pc = "assembled"
    /\ \E m \in 1..Len(all_enriched) :
          LET appended == final_merged[m].clubs
              sorted == all_enriched[m].clubs
          IN  /\ Len(appended) = 3
              /\ appended[1].source_type = "Goodreads"
              /\ appended[2].source_type = "Reddit"
              /\ ClubTie(appended[2], appended[3])
              /\ appended[2] # appended[3]
              /\ sorted = <<appended[2], appended[3], appended[1]>>

(***************************************************************************)
(* Claims about pre_group_books and normalize_book_string (checked under   *)
(* SpecGroup).                                                             *)
(***************************************************************************)
KeyOfBook(i) == normalize_book_string(raw_books[i].title, raw_books[i].author)

\* the records the loop has been through
Taken == 1..(next_book - 1)

\* the places <<g, k>> of the groups that hold input record i
PlacesOf(i) ==
    {p \in (1..Len(groups)) \X (1..MaxRawBooks) :
        /\ p[2] <= Len(groups[p[1]].books)
        /\ groups[p[1]].books[p[2]] = raw_books[i]}

\* the taken records with the given key, in input order
RECURSIVE TakenWithKey(_, _)
TakenWithKey(key, n) ==
    IF n = 0 THEN <<>>
    ELSE IF KeyOfBook(n) = key
         THEN Append(TakenWithKey(key, n - 1), raw_books[n])
         ELSE TakenWithKey(key, n - 1)

\* C18: pre_group_books partitions its input: each record with a non-empty
\* key is in exactly one group, the group of its own key, exactly once; a
\* group holds no record of another key; and a group's records are in input
\* order.
C18_GroupsPartitionInput ==
    /\ \A g, h \in 1..Len(groups) : groups[g].key = groups[h].key => g = h
    /\ \A i \in Taken :
          KeyOfBook(i) # <<>> =>
              /\ Cardinality(PlacesOf(i)) = 1
              /\ \A p \in PlacesOf(i) : groups[p[1]].key = KeyOfBook(i)
    /\ \A g \in 1..Len(groups) :
          /\ groups[g].key # <<>>
          /\ groups[g].books # <<>>
          /\ \A k \in 1..Len(groups[g].books) :
                \E i \in Taken :
                    /\ raw_books[i] = groups[g].books[k]
                    /\ KeyOfBook(i) = groups[g].key
          /\ groups[g].books = TakenWithKey(groups[g].key, next_book - 1)

\* the first and third record, spelled differently, share a group and the
\* second has a group of its own
C18_Witness ==
    /\ pc = "grouped"
    /\ Len(raw_books) = 3
    /\ raw_books[1].title # raw_books[3].title
    /\ raw_books[1].author # raw_books[3].author
    /\ Len(groups) = 2
    /\ groups[1].books = <<raw_books[1], raw_books[3]>>
    /\ groups[2].books = <<raw_books[2]>>

Blank(s) == Strip(s) = <<>>

\* C19: pre_group_books drops a record exactly when its normalized key is
\* empty, and the key is empty only when title and author are both blank.
C19_DropsOnlyBlankRecords ==
    \A i \in Taken :
        /\ (PlacesOf(i) = {}) <=> (KeyOfBook(i) = <<>>)
        /\ KeyOfBook(i) = <<>> => Blank(raw_books[i].title) /\ Blank(raw_books[i].author)

\* s with letter case and the amount of whitespace taken away
Folded(s) == LowerStr(Strip(CollapseSpaces(s)))

\* C20: two (title, author) pairs that differ only in letter case and in
\* leading, trailing or repeated whitespace have the same normalized key.
C20_CaseAndWhitespaceInsensitive ==
    \A i, j \in 1..Len(raw_books) :
        (/\ Folded(raw_books[i].title) = Folded(raw_books[j].title)
         /\ Folded(raw_books[i].author) = Folded(raw_books[j].author))
            => KeyOfBook(i) = KeyOfBook(j)

\* C21: normalize_book_string is idempotent on its own output: the key of a
\* record, normalized again as a title with an empty author, is that key.
C21_NormalizeIdempotent ==
    \A i \in 1..Len(raw_books) :
        normalize_book_string(KeyOfBook(i), <<>>) = KeyOfBook(i)

(***************************************************************************)
(* Claims about cluster_groups_ml and assign_priority (checked under       *)
(* SpecCluster).                                                           *)
(***************************************************************************)
\* the book lists of a list of groups or clusters, joined
RECURSIVE JoinedBooks(_)
JoinedBooks(holders) ==
    IF holders = <<>> THEN <<>>
    ELSE holders[1].books \o JoinedBooks(Tail(holders))

Occurrences(books, b) == Cardinality({i \in 1..Len(books) : books[i] = b})

\* the clusters that hold a record of group g
ClustersHolding(g) ==
    {n \in 1..Len(ml_clusters) :
        \E i \in 1..Len(groups[g].books) :
            Occurrences(ml_clusters[n].books, groups[g].books[i]) > 0}

\* C22: cluster_groups_ml keeps every record in exactly one cluster: no
\* groups give no clusters, one group gives one cluster, and for any labels
\* the records over all clusters are the records over all groups, each as
\* often, with all records of one group in the same cluster.
C22_ClustersKeepEveryRecord ==
    pc \in {"clustered", "prioritized"} =>
        /\ Len(groups) = 0 => ml_clusters = <<>>
        /\ Len(groups) = 1 =>
              Len(ml_clusters) = 1 /\ ml_clusters[1].books = groups[1].books
        /\ \A b \in Range(JoinedBooks(groups)) \cup Range(JoinedBooks(ml_clusters)) :
              Occurrences(JoinedBooks(ml_clusters), b) = Occurrences(JoinedBooks(groups), b)
        /\ \A g \in 1..Len(groups) :
              /\ Cardinality(ClustersHolding(g)) = 1
              /\ \A n \in ClustersHolding(g) :
                    \A i \in 1..Len(groups[g].books) :
                        Occurrences(ml_clusters[n].books, groups[g].books[i]) = 1

\* three groups, the first and third labelled alike: two clusters, the first
\* holding the records of both groups
C22_Witness ==
    /\ pc = "clustered"
    /\ Len(groups) = 3
    /\ labels[1] = labels[3]
    /\ labels[1] # labels[2]
    /\ Len(groups[1].books) = 2
    /\ Len(ml_clusters) = 2
    /\ ml_clusters[1].books = groups[1].books \o groups[3].books
    /\ ml_clusters[2].books = groups[2].books

\* the (club_name, source_type) pairs among a list of records
ClubPairs(books) ==
    {<<books[i].club_name, books[i].source_type>> : i \in 1..Len(books)}

\* C23: the num_clubs of every built cluster is the number of distinct
\* (club_name, source_type) pairs among its records, so one club name on two
\* source types counts twice.
C23_NumClubsCountsPairs ==
    pc # "raw" =>
        \A p \in 1..Len(clusters) :
            clusters[p].num_clubs = Cardinality(ClubPairs(clusters[p].books))

(***************************************************************************)
(* Conservation of club records by assemble_enriched (checked under        *)
(* SpecAssemble).                                                          *)
(***************************************************************************)
\* the clusters handed to assemble_enriched: those of fetched, then remainder
InputClusters == [i \in 1..Len(fetched) |-> fetched[i].cluster] \o remainder

\* the clubs lists of a list of entries, joined
RECURSIVE JoinedClubs(_)
JoinedClubs(entries) ==
    IF entries = <<>> THEN <<>>
    ELSE entries[1].clubs \o JoinedClubs(Tail(entries))

\* one club record per record of each cluster, joined
RECURSIVE RecordsAsClubs(_)
RecordsAsClubs(cs) ==
    IF cs = <<>> THEN <<>>
    ELSE [i \in 1..Len(cs[1].books) |->
             [club_name |-> cs[1].books[i].club_name,
              source_type |-> cs[1].books[i].source_type,
              discussion_url |-> cs[1].books[i].discussion_url,
              month |-> cs[1].books[i].month,
              original_title |-> cs[1].books[i].title]]
         \o RecordsAsClubs(Tail(cs))

\* C29: assemble_enriched conserves club records: the club records over all
\* returned entries number as many as the records over all fetched and
\* remainder clusters, and each record's club record occurs as often in the
\* output as the record does in the input.
C29_ClubRecordsConserved ==
    pc = "assembled" =>
        LET out == JoinedClubs(all_enriched)
            in == RecordsAsClubs(InputClusters)
        IN  /\ Len(out) = Len(in)
            /\ \A c \in Range(out) \cup Range(in) :
                  Occurrences(out, c) = Occurrences(in, c)

\* two fetched clusters under one id and a remainder cluster of the same
\* title end as one entry that holds every record
C29_Witness ==
    /\ pc = "assembled"
    /\ Len(fetched) = 2
    /\ Len(remainder) = 1
    /\ fetched[1].cluster # fetched[2].cluster
    /\ Len(enriched_by_gid) = 1
    /\ Len(all_enriched) = 1
    /\ Len(all_enriched[1].clubs) >= 4
    /\ Len(all_enriched[1].clubs) = Len(RecordsAsClubs(InputClusters))


(***************************************************************************)
(* Claims about the cache across the run (specification Spec)              *)
(***************************************************************************)

\* C24: load_cache never fails the run: with a cache file that is missing,
\* unreadable or unparseable, the run's first step arrives at the batch with
\* an empty cache, as a run that starts with no cached lookups does.
C24_LoadNeverFails ==
    [][(pc = "start" /\ cache_file.state # "ok" /\ pc' # "start")
          => (pc' = "batch" /\ cache' = EmptyDict)]_vars

\* task i has issued its call to the catalog
Called(i) == entry[i] = "miss" /\ tpc[i] \in {"calling", "done", "raised"}

\* C25: within one batch no cache key receives more than one external call (and
\* so no key is written more than once): two tasks of the batch with the same
\* key never both issue a call.
C25_OneCallPerKey ==
    \A i \in DOMAIN tpc : \A j \in DOMAIN tpc :
        (i # j /\ KeyOfTask(i) = KeyOfTask(j)) => ~(Called(i) /\ Called(j))

\* C26: cache entries never expire: a key that has an entry, in the dict of the
\* batch or in the file between runs, keeps it with the same value at every
\* later step.
C26_EntriesNeverChange ==
    [][\A k \in DOMAIN CacheView :
          k \in DOMAIN CacheView' /\ CacheView'[k] = CacheView[k]]_vars

(***************************************************************************)
(* Claims about the order of a lookup's steps (specification Spec)         *)
(***************************************************************************)

\* the tasks that issue their call in this step
Calling == {i \in DOMAIN tpc : tpc[i] # "calling" /\ tpc'[i] = "calling"}
\* the tasks that begin their delay in this step
Delaying == {i \in DOMAIN tpc : tpc[i] # "sleeping" /\ tpc'[i] = "sleeping"}

\* C27: every external call is preceded by the per-request delay, taken while
\* holding the gate: a task begins its delay only in the step in which it
\* takes a slot of the gate after missing the cache, it issues its call only
\* from the delay and without having left the gate, and the number of calls
\* grows only by a task that comes out of its delay.
C27_DelayBeforeEveryCall ==
    [][(pc = "batch" /\ pc' = "batch") =>
          /\ \A i \in Delaying :
                /\ tpc[i] \in {"ready", "waiting"}
                /\ entry'[i] = "miss"
                /\ sem > 0 /\ sem' = sem - 1
          /\ \A i \in Calling :
                /\ tpc[i] = "sleeping"
                /\ i \in InGate
                /\ sem' = sem
                /\ calls_issued' = calls_issued + 1
          /\ (calls_issued' # calls_issued) => Cardinality(Calling) = 1]_vars

\* one task has issued its call after its delay while another, which holds
\* the other slot of the gate, is still in its delay
C27_Witness ==
    /\ pc = "batch"
    /\ calls_issued >= 1
    /\ \E i \in DOMAIN tpc : \E j \in DOMAIN tpc :
          /\ tpc[i] = "calling" /\ entry[i] = "miss"
          /\ tpc[j] = "sleeping"

NoRepeats(books_) ==
    \A i \in DOMAIN books_ : \A j \in DOMAIN books_ : i # j => books_[i] # books_[j]

\* the books of the checkpoint on disk
CheckpointBooks == load_checkpoint(checkpoint_file).books
CheckpointCompleted == load_checkpoint(checkpoint_file).completed_groups

\* C30: across runs that are interrupted or hit per-group errors and are
\* resumed from the checkpoint, each group's books are added to the
\* accumulated list at most once (the list in memory, in the checkpoint and
\* in the results holds no record twice); a group's books are in the
\* checkpoint only together with the group in its completed list; a group
\* the checkpoint lists as completed is not scraped again; and the
\* checkpoint is removed only in the step after the results were saved.
C30_GroupBooksAddedOnce ==
    [][/\ NoRepeats(all_books')
       /\ NoRepeats(CheckpointBooks')
       /\ output_file'.state = "ok" => NoRepeats(output_file'.books)
       /\ \A i \in DOMAIN CheckpointBooks' :
             CheckpointBooks'[i].club_name \in CheckpointCompleted'
       /\ pc' = "scraping" => remaining'[1] \notin CheckpointCompleted'
       /\ (checkpoint_file.state = "ok" /\ checkpoint_file'.state = "missing") =>
             /\ pc = "clear"
             /\ output_file = save_results(all_books, scrape_groups)]_vars
====
